---- MODULE Spec2Model ----
(***************************************************************************)
(* A model of snailbus: the tenant-scoped host storage                     *)
(* (internal/storage/postgres.go) and the request pipeline of the API      *)
(* (AuthMiddleware, OrgContextMiddleware, RequireRole and the router       *)
(* of internal/testutils/fixtures.go).                                     *)
(*                                                                         *)
(* Spec      the host storage, called by concurrent workers.  Every SQL    *)
(*           statement is one atomic step; SaveHost issues two statements  *)
(*           (a SELECT, then an INSERT .. ON CONFLICT) outside of any      *)
(*           transaction, so it is two steps of one worker.                *)
(* AuthSpec  one request travelling through the middleware chain of its    *)
(*           route, with API keys being issued and deleted and time        *)
(*           passing in between.                                           *)
(* ChainSpec the same, for routes that list their middleware themselves.   *)
(* CSRFSpec  one request to a router guarded by CSRFTokens.                *)
(* RateSpec  concurrent requests passing the four rate limiters.           *)
(* KeySpec   the handlers that issue API keys.                             *)
(* UserSpec  registration and the user-management handlers.               *)
(* TouchSpec requests of every role on every protected route, with the     *)
(*           goroutines that record the last use of a key.                 *)
(* VerifySpec key generation and verification as functions.                *)
(* RaceSpec  role updates and deletions of two admins in flight at once.    *)
(* InsertSpec two requests that create a user in flight at once.           *)
(* RevokeSpec requests with API keys while roles change and users go.      *)
(* PipelineSpec requests meeting every stage that can refuse them.         *)
(***************************************************************************)
EXTENDS Integers, Sequences, FiniteSets, TLC

VARIABLES
    hosts,      \* the hosts table: host_id -> row, or NoHost
    pc,         \* per worker: "idle", or where the call or request in progress is
    pend,       \* per worker: the arguments of the call or request in progress
    last,       \* the storage call that returned last, with what it returned
    users,      \* the users table: user id -> row, or NoUser
    apiKeys,    \* the api_keys table: key id -> row, or NoKey
    issued,     \* the plaintext keys GenerateAPIKey has produced so far
    now,        \* the wall clock
    req,        \* the request in the middleware chain, or NoReq
    touchQ,     \* key ids whose `go store.UpdateAPIKeyLastUsed` has not run yet
    stores,     \* per rate limiter: the counters of its memory store, by key
    inflight,   \* per connection: the request a rate limiter is serving, or NoFlight
    admitted,   \* the requests the limiters let through in each key's latest window
    sent,       \* the number of requests the limiters have received
    orgs,       \* the organizations table: organization id -> name
    accounts,   \* the users table's unique columns: user id -> username and email
    callers     \* what the callers of the key-issuing handlers hold and wait for

storeVars == <<hosts, pc, pend, last>>
authVars  == <<apiKeys, issued, now, req, touchQ>>
rateVars  == <<stores, inflight, admitted, sent>>
acctVars  == <<orgs, accounts, callers>>
vars      == <<hosts, pc, pend, last, users, apiKeys, issued, now, req, touchQ,
               stores, inflight, admitted, sent, orgs, accounts, callers>>

----------------------------------------------------------------------------
(* Identities.  Organizations, users, hosts and report payloads are opaque *)
(* values: two organizations, one user of each role (two of them in one    *)
(* organization), one user whose account is not active, two hosts.         *)

OrgIDs     == {"orgA", "orgB"}
UserIDs    == {"u1", "u2", "u3", "u4"}
HostIDs    == {"h1", "h2"}
ReportData == {"d1", "d2"}
Workers    == {"w1", "w2"}
Roles      == {"admin", "editor", "viewer"}

NoHost == [org_id |-> "-", uploaded_by_user_id |-> "-", data |-> "-"]
NoUser == [org_id |-> "-", role |-> "-", is_active |-> FALSE]
NoPend == [host_id |-> "-", org_id |-> "-", user_id |-> "-", data |-> "-"]
NoReport == [host_id |-> "-", data |-> "-"]

\* The users that exist when the model starts: CreateUser always stores a
\* user with an organization and one of the three roles.  No code of the
\* repository clears users.is_active (the column defaults to true): the
\* inactive account is one an operator has switched off in the database.
InitialUsers ==
    [u \in UserIDs |->
        CASE u = "u1" -> [org_id |-> "orgA", role |-> "admin",  is_active |-> TRUE]
          [] u = "u2" -> [org_id |-> "orgB", role |-> "editor", is_active |-> TRUE]
          [] u = "u3" -> [org_id |-> "orgA", role |-> "viewer", is_active |-> TRUE]
          [] OTHER    -> [org_id |-> "orgB", role |-> "editor", is_active |-> FALSE]]

\* The organizations of those users, and the usernames and addresses the
\* users registered with: the model names a user by its username.
InitialOrgs == [o \in OrgIDs |-> o]
InitialAccounts == [u \in UserIDs |-> [username |-> u, email |-> u]]

\* No caller holds a key, and none is about to retry a request.
NoCallers == [received |-> {}, retrying |-> {}]

----------------------------------------------------------------------------
(* Errors.  A Go error is the sentinel storage.ErrNotFound, or a message   *)
(* wrapping (%w) either that sentinel or a driver error.                   *)

NoErr       == [kind |-> "nil", msg |-> "", wraps |-> "-"]
ErrNotFound == [kind |-> "sentinel", msg |-> "not found", wraps |-> "-"]
Errorf(msg, inner) == [kind |-> "wrapped", msg |-> msg, wraps |-> inner]

\* errors.Is(err, ErrNotFound)
IsNotFound(err) == err = ErrNotFound \/ (err.kind = "wrapped" /\ err.wraps = "ErrNotFound")
\* a failure of the database driver, wrapped by the storage method
IsDriverError(err) == err.kind = "wrapped" /\ err.wraps = "driver"

ErrOtherOrg == Errorf("host belongs to a different organization", "ErrNotFound")

Returned(op, h, o, err, report, list) ==
    [op |-> op, host_id |-> h, org_id |-> o, err |-> err, report |-> report, list |-> list]

NoCall == Returned("-", "-", "-", NoErr, NoReport, {})

----------------------------------------------------------------------------
(* The host storage.                                                       *)

Stored(h) == hosts[h] # NoHost

\* SELECT org_id FROM hosts WHERE host_id = $1, and the comparison after it
SaveHostRejectsMutant(h, orgID) == FALSE
SaveHostRejects(h, orgID) == Stored(h) /\ hosts[h].org_id # orgID

\* SaveHost, first statement: the existence and ownership check.
SaveHostCheck(w, h, u, d, fail) ==
    /\ pc[w] = "idle"
    \* the caller is Ingest, behind AuthMiddleware and RequireRole("editor", "admin")
    /\ users[u] # NoUser /\ users[u].is_active
    /\ users[u].role \in {"editor", "admin"}
    /\ LET orgID == users[u].org_id IN
       IF fail
       THEN /\ last' = Returned("SaveHost", h, orgID,
                                Errorf("failed to check existing host", "driver"),
                                NoReport, {})
            /\ UNCHANGED <<hosts, pc, pend>>
       ELSE IF SaveHostRejects(h, orgID)
       THEN /\ last' = Returned("SaveHost", h, orgID, ErrOtherOrg, NoReport, {})
            /\ UNCHANGED <<hosts, pc, pend>>
       ELSE /\ pc' = [pc EXCEPT ![w] = "upsert"]
            /\ pend' = [pend EXCEPT ![w] =
                          [host_id |-> h, org_id |-> orgID, user_id |-> u, data |-> d]]
            /\ UNCHANGED <<hosts, last>>
    /\ UNCHANGED <<users, apiKeys, issued, now, req, touchQ, rateVars, acctVars>>

\* SaveHost, second statement: INSERT .. ON CONFLICT (host_id) DO UPDATE SET
\* .., data, org_id, uploaded_by_user_id = EXCLUDED.*
SaveHostUpsert(w, fail) ==
    /\ pc[w] = "upsert"
    /\ LET a == pend[w] IN
       IF fail
       THEN /\ last' = Returned("SaveHost", a.host_id, a.org_id,
                                Errorf("failed to save host", "driver"), NoReport, {})
            /\ UNCHANGED hosts
       ELSE /\ hosts' = [hosts EXCEPT ![a.host_id] =
                          [org_id |-> a.org_id, uploaded_by_user_id |-> a.user_id,
                           data |-> a.data]]
            /\ last' = Returned("SaveHost", a.host_id, a.org_id, NoErr, NoReport, {})
    /\ pc' = [pc EXCEPT ![w] = "idle"]
    /\ pend' = [pend EXCEPT ![w] = NoPend]
    /\ UNCHANGED <<users, apiKeys, issued, now, req, touchQ, rateVars, acctVars>>

\* SELECT .. FROM hosts WHERE host_id = $1 AND org_id = $2: the row, if any
GetHostRowMutant(h, orgID) == IF Stored(h) THEN {h} ELSE {}
GetHostRow(h, orgID) == IF Stored(h) /\ hosts[h].org_id = orgID THEN {h} ELSE {}

\* What GetHost returns when the driver works: <<report, err>>
GetHostResult(h, orgID) ==
    IF GetHostRow(h, orgID) = {}
    THEN <<NoReport, ErrNotFound>>
    ELSE <<[host_id |-> h, data |-> hosts[h].data], NoErr>>

GetHost(h, orgID, fail) ==
    /\ last' = IF fail
               THEN Returned("GetHost", h, orgID, Errorf("failed to get host", "driver"),
                             NoReport, {})
               ELSE Returned("GetHost", h, orgID, GetHostResult(h, orgID)[2],
                             GetHostResult(h, orgID)[1], {})
    /\ UNCHANGED <<hosts, pc, pend, users, apiKeys, issued, now, req, touchQ, rateVars, acctVars>>

\* DELETE FROM hosts WHERE host_id = $1 AND org_id = $2: the rows affected
DeleteHostRowsMutant(h, orgID) == IF Stored(h) THEN {h} ELSE {}
DeleteHostRows(h, orgID) == IF Stored(h) /\ hosts[h].org_id = orgID THEN {h} ELSE {}

DeleteHost(h, orgID, fail) ==
    /\ IF fail
       THEN /\ last' = Returned("DeleteHost", h, orgID,
                                Errorf("failed to delete host", "driver"), NoReport, {})
            /\ UNCHANGED hosts
       ELSE LET rows == DeleteHostRows(h, orgID) IN
            /\ hosts' = [x \in HostIDs |-> IF x \in rows THEN NoHost ELSE hosts[x]]
            /\ last' = Returned("DeleteHost", h, orgID,
                                IF rows = {} THEN ErrNotFound ELSE NoErr, NoReport, {})
    /\ UNCHANGED <<pc, pend, users, apiKeys, issued, now, req, touchQ, rateVars, acctVars>>

\* SELECT .. FROM hosts WHERE org_id = $1: the rows selected.  The result
\* is kept as a set of summaries: the ORDER BY received_at of the query
\* orders the rows and selects none.
ListHostsRowsMutant(orgID) == {h \in HostIDs : Stored(h)}
ListHostsRows(orgID) == {h \in HostIDs : Stored(h) /\ hosts[h].org_id = orgID}

HostSummary(h) ==
    [host_id |-> h, org_id |-> hosts[h].org_id,
     uploaded_by_user_id |-> hosts[h].uploaded_by_user_id]

ListHosts(orgID, fail) ==
    /\ last' = IF fail
               THEN Returned("ListHosts", "-", orgID, Errorf("failed to list hosts", "driver"),
                             NoReport, {})
               ELSE Returned("ListHosts", "-", orgID, NoErr, NoReport,
                             {HostSummary(h) : h \in ListHostsRows(orgID)})
    /\ UNCHANGED <<hosts, pc, pend, users, apiKeys, issued, now, req, touchQ, rateVars, acctVars>>

----------------------------------------------------------------------------
(* API keys (package auth).  A plaintext key is a string, kept as the      *)
(* sequence of its characters: the lookup prefix, then the rest.  A        *)
(* generated key is the URL-safe base64 encoding of 32 random bytes (44    *)
(* characters); here the rest after the prefix is two characters, the      *)
(* last of which carries the final, partly filled sextet.                  *)

KeyPrefixLen == 8
MaxTime == 1

Base64Chars == {"a", "b", "p", "q", "w", "x"}

Pfx(c) == [i \in 1..KeyPrefixLen |-> c]
K1 == Pfx("a") \o <<"p", "w">>
K2 == Pfx("a") \o <<"q", "w">>       \* shares K1's prefix
K3 == Pfx("b") \o <<"p", "w">>       \* a prefix no stored key has
MalformedKey == Pfx("a") \o <<"p", "!">>
ShortKey == <<"a", "a">>

\* the plaintexts rand.Read and EncodeToString can produce
KeySpace == {K1, K2}
KeyIDs == {"k1", "k2"}
\* the id the database gives the row of a generated key (a fresh UUID per row)
KeyIDFor(plain) == IF plain = K1 THEN "k1" ELSE "k2"

\* len(plainKey) >= 8 ? plainKey[:8] : plainKey
GetKeyPrefix(plainKey) ==
    IF Len(plainKey) >= KeyPrefixLen THEN SubSeq(plainKey, 1, KeyPrefixLen) ELSE plainKey

\* The data bits of the last character of an encoding: 'w' (110000) and
\* 'x' (110001) differ in padding bits only, which URLEncoding (not
\* Strict) drops.
FinalBits(c) == IF c = "x" THEN "w" ELSE c

\* base64.URLEncoding.DecodeString: an error on a character outside the
\* alphabet or on a length that is not a padded multiple of four (here:
\* not the length of a generated key), else the bytes.
Base64Decode(s) ==
    IF Len(s) # Len(K1) \/ \E i \in 1..Len(s) : s[i] \notin Base64Chars
    THEN [ok |-> FALSE, bytes |-> <<>>]
    ELSE [ok |-> TRUE, bytes |-> [s EXCEPT ![Len(s)] = FinalBits(s[Len(s)])]]

\* bcrypt.GenerateFromPassword: a salted one-way hash of the bytes
Bcrypt(keyBytes) == [alg |-> "bcrypt", of |-> keyBytes]
\* bcrypt.CompareHashAndPassword(hash, bytes) == nil
BcryptMatches(keyHash, keyBytes) == keyHash = Bcrypt(keyBytes)

VerifyAPIKey(plainKey, keyHash) ==
    LET d == Base64Decode(plainKey) IN
    IF ~d.ok THEN FALSE ELSE BcryptMatches(keyHash, d.bytes)

\* expiresAt is a *time.Time: <<>> is nil, <<t>> points to t
IsExpiredMutant(expiresAt) == FALSE
IsExpired(expiresAt) == IF expiresAt = <<>> THEN FALSE ELSE now > expiresAt[1]

NoKey == [user_id |-> "-", key_hash |-> Bcrypt(<<>>), key_prefix |-> <<>>,
          expires_at |-> <<>>, last_used_at |-> <<>>]

ExpiryChoices == {<<>>} \cup {<<t>> : t \in 0..(MaxTime - 1)}

\* GenerateAPIKey, then INSERT INTO api_keys: the handlers CreateAPIKey,
\* Login and GetAPIKeyFromCredentials issue keys this way.  A key of 32
\* random bytes is never generated twice.
CreateAPIKey(u, plainKey, expiresAt) ==
    /\ users[u] # NoUser
    /\ plainKey \in KeySpace \ issued
    /\ issued' = issued \cup {plainKey}
    /\ apiKeys' = [apiKeys EXCEPT ![KeyIDFor(plainKey)] =
                     [user_id |-> u,
                      key_hash |-> Bcrypt(Base64Decode(plainKey).bytes),
                      key_prefix |-> GetKeyPrefix(plainKey),
                      expires_at |-> expiresAt,
                      last_used_at |-> <<>>]]
    /\ UNCHANGED <<hosts, pc, pend, last, users, now, req, touchQ, rateVars, acctVars>>

\* DELETE FROM api_keys WHERE id = $1
DeleteAPIKey(k) ==
    /\ apiKeys[k] # NoKey
    /\ apiKeys' = [apiKeys EXCEPT ![k] = NoKey]
    /\ UNCHANGED <<hosts, pc, pend, last, users, issued, now, req, touchQ, rateVars, acctVars>>

\* SELECT .. FROM api_keys WHERE key_prefix = $1
GetAPIKeyByPrefix(keyPrefix) ==
    {k \in KeyIDs : apiKeys[k] # NoKey /\ apiKeys[k].key_prefix = keyPrefix}

\* The query has no ORDER BY: the rows come in any order.
RowOrders(S) ==
    {q \in UNION {[1..n -> S] : n \in {Cardinality(S)}} :
        \A i, j \in DOMAIN q : i # j => q[i] # q[j]}

\* time.Now() moving on
Tick ==
    /\ now < MaxTime
    /\ now' = now + 1
    /\ UNCHANGED <<hosts, pc, pend, last, users, apiKeys, issued, req, touchQ, rateVars, acctVars>>

----------------------------------------------------------------------------
(* The router (SetupFullTestRouter) and the middleware chain of a request. *)

Route(method, path) == [method |-> method, path |-> path]

PublicRoutes == {Route("POST", "/api/v1/auth/login")}
ProtectedRoutes ==
    {Route("GET", "/api/v1/auth/me"), Route("POST", "/api/v1/api-keys"),
     Route("GET", "/api/v1/api-keys"), Route("DELETE", "/api/v1/api-keys/:id"),
     Route("GET", "/api/v1/hosts"), Route("GET", "/api/v1/hosts/:host_id")}
EditorOrAdminRoutes == {Route("DELETE", "/api/v1/hosts/:host_id")}
AdminOnlyRoutes ==
    {Route("GET", "/api/v1/users"), Route("POST", "/api/v1/users"),
     Route("PUT", "/api/v1/users/:user_id/role"), Route("DELETE", "/api/v1/users/:user_id")}
IngestRoutes == {Route("POST", "/api/v1/ingest")}

\* every route behind AuthMiddleware
AuthenticatedRoutes ==
    ProtectedRoutes \cup EditorOrAdminRoutes \cup AdminOnlyRoutes \cup IngestRoutes
Routes == PublicRoutes \cup AuthenticatedRoutes

Mw(name, roles) == [mw |-> name, roles |-> roles]

\* Routes registered with their middleware listed on the route itself
\* (v1.DELETE(path, AuthMiddleware, RequireRole(..), handler)), in the order
\* the documentation prescribes and in the orders it warns against: each
\* middleware is a function any router may install anywhere.
RoleLists ==
    {<<>>, <<"admin">>, <<"editor">>, <<"viewer">>, <<"editor", "admin">>,
     <<"viewer", "editor">>, <<"admin", "editor", "viewer">>}

ListName(l) ==
    IF Len(l) = 0 THEN "none"
    ELSE IF Len(l) = 1 THEN l[1]
    ELSE IF Len(l) = 2 THEN l[1] \o "," \o l[2]
    ELSE l[1] \o "," \o l[2] \o "," \o l[3]

DirectRegistrations ==
    {<<Route("GET", "/direct/role/" \o ListName(l)), <<Mw("RequireRole", l)>>>> :
        l \in RoleLists}
    \cup {<<Route("GET", "/direct/auth-role/" \o ListName(l)),
            <<Mw("AuthMiddleware", <<>>), Mw("RequireRole", l)>>>> : l \in RoleLists}
    \cup {<<Route("GET", "/direct/role-auth"),
            <<Mw("RequireRole", <<"admin">>), Mw("AuthMiddleware", <<>>)>>>>,
          <<Route("GET", "/direct/org"), <<Mw("OrgContextMiddleware", <<>>)>>>>,
          <<Route("GET", "/direct/org-auth"),
            <<Mw("OrgContextMiddleware", <<>>), Mw("AuthMiddleware", <<>>)>>>>,
          <<Route("GET", "/direct/org-role"),
            <<Mw("OrgContextMiddleware", <<>>), Mw("RequireRole", <<"viewer">>)>>>>}

DirectRoutes == {x[1] : x \in DirectRegistrations}
DirectChain(r) == (CHOOSE x \in DirectRegistrations : x[1] = r)[2]

\* A router with r.Use(CSRFTokens()) ahead of every route, as the
\* middleware's test builds it.
CSRFRoute(method, path) == [method |-> method, path |-> path, router |-> "csrf"]
CSRFRoutes ==
    {CSRFRoute(m, p) :
        m \in {"GET", "HEAD", "OPTIONS", "POST", "PUT", "PATCH", "DELETE"},
        p \in {"/test", "/api/v1/auth/login", "/api/v1/auth/register",
               "/api/v1/auth/api-key", "/api/v1/auth/me"}}

\* the handlers gin runs before the route's own handler, in order of Use()
RouteChainMutant(r) ==
    CASE r \in PublicRoutes -> <<>>
      [] r \in DirectRoutes -> DirectChain(r)
      [] r \in CSRFRoutes -> <<Mw("CSRFTokens", <<>>)>>
      [] r \in ProtectedRoutes ->
            <<Mw("AuthMiddleware", <<>>), Mw("OrgContextMiddleware", <<>>)>>
      [] r \in EditorOrAdminRoutes ->
            <<Mw("AuthMiddleware", <<>>), Mw("OrgContextMiddleware", <<>>),
              Mw("RequireRole", <<"editor", "admin">>)>>
      [] r \in AdminOnlyRoutes ->
            <<Mw("AuthMiddleware", <<>>), Mw("OrgContextMiddleware", <<>>),
              Mw("RequireRole", <<"admin">>)>>
      [] OTHER ->
            <<Mw("AuthMiddleware", <<>>), Mw("RequireRole", <<"editor", "admin">>)>>
RouteChain(r) ==
    CASE r \in PublicRoutes -> <<>>
      [] r \in DirectRoutes -> DirectChain(r)
      [] r \in CSRFRoutes -> <<Mw("CSRFTokens", <<>>)>>
      [] r \in ProtectedRoutes ->
            <<Mw("AuthMiddleware", <<>>), Mw("OrgContextMiddleware", <<>>)>>
      [] r \in EditorOrAdminRoutes ->
            <<Mw("AuthMiddleware", <<>>), Mw("OrgContextMiddleware", <<>>),
              Mw("RequireRole", <<"editor", "admin">>)>>
      [] r \in AdminOnlyRoutes ->
            <<Mw("AuthMiddleware", <<>>), Mw("OrgContextMiddleware", <<>>),
              Mw("RequireRole", <<"admin">>)>>
      [] OTHER ->
            <<Mw("AuthMiddleware", <<>>), Mw("OrgContextMiddleware", <<>>),
              Mw("RequireRole", <<"editor", "admin">>)>>

\* strings.ToUpper(method) is one of POST, PUT, PATCH, DELETE
IsStateChangingMethod(method) == method \in {"POST", "PUT", "PATCH", "DELETE"}

\* The headers of a request.  The Authorization header is kept as what
\* strings.SplitN(header, " ", 2) makes of it; <<>> is the absent header.
Headers(xApiKey, authorization) == [x_api_key |-> xApiKey, authorization |-> authorization]

HeaderChoices ==
    {Headers(<<>>, <<>>), Headers(K1, <<>>), Headers(K2, <<>>), Headers(K3, <<>>),
     Headers(MalformedKey, <<>>), Headers(ShortKey, <<>>),
     Headers(<<>>, <<"Bearer", K1>>), Headers(<<>>, <<"Bearer">>)}

\* The requests that arrive: every route with a key and without one, and
\* one route with every choice of headers.
Requests ==
    (Routes \X {Headers(K1, <<>>), Headers(<<>>, <<>>)})
    \cup ({Route("GET", "/api/v1/hosts")} \X HeaderChoices)

\* gin.H of a terminal response
Response(status, error, message, requiredRoles, yourRole) ==
    [status |-> status, error |-> error, message |-> message,
     required_roles |-> requiredRoles, your_role |-> yourRole]
NoResp == Response(0, "", "", <<>>, "")

\* the keys of gin.Context; "-" and NoUser are keys that are not set
NoCtx == [user_id |-> "-", api_key_id |-> "-", user |-> NoUser, org_id |-> "-", role |-> "-"]

NoReq == [stage |-> "none", route |-> Route("-", "-"), headers |-> Headers(<<>>, <<>>),
          idx |-> 0, ctx |-> NoCtx, resp |-> NoResp, ran |-> <<>>, handled |-> FALSE]

\* the middleware gin runs next for the request, or none when the chain is done
Current ==
    IF req.stage = "running" /\ req.idx <= Len(RouteChain(req.route))
    THEN RouteChain(req.route)[req.idx]
    ELSE Mw("-", <<>>)

\* c.JSON(status, body); c.Abort(); return
AbortMutant(resp) == req' = [req EXCEPT !.idx = @ + 1, !.resp = resp]
Abort(resp) == req' = [req EXCEPT !.stage = "aborted", !.resp = resp]

\* c.Next() at the end of the middleware mw, with the context it leaves
Proceed(mw, ctx) ==
    req' = [req EXCEPT !.idx = @ + 1, !.ctx = ctx, !.ran = Append(@, mw)]

\* a request arrives: gin matches the route and starts its chain
ServeHTTP(r, hd) ==
    /\ req.stage = "none"
    /\ req' = [NoReq EXCEPT !.stage = "running", !.route = r, !.headers = hd, !.idx = 1]
    /\ UNCHANGED <<hosts, pc, pend, last, users, apiKeys, issued, now, touchQ, rateVars, acctVars>>

\* X-API-Key, else the second part of the Authorization header
ExtractAPIKey(hd) ==
    IF hd.x_api_key # <<>> THEN hd.x_api_key
    ELSE IF hd.authorization # <<>> /\ Len(hd.authorization) = 2 THEN hd.authorization[2]
    ELSE <<>>

MissingKeyResponse ==
    Response(401, "missing API key", "Please provide an API key in the X-API-Key header",
             <<>>, "")
LookupErrorResponse == Response(500, "authentication error", "", <<>>, "")
\* len(apiKeys) == 0
NoCandidatesResponseMutant == Response(403, "invalid API key", "", <<>>, "")
NoCandidatesResponse == Response(401, "invalid API key", "", <<>>, "")
KeyExpiredResponse == Response(401, "API key expired", "", <<>>, "")
\* matchedKey == nil
NoMatchResponseMutant == Response(401, "API key mismatch", "", <<>>, "")
NoMatchResponse == Response(401, "invalid API key", "", <<>>, "")
InactiveResponse == Response(401, "user account is inactive", "", <<>>, "")

\* for _, key := range apiKeys { if auth.VerifyAPIKey(apiKey, key.KeyHash) ..
\* break }: the position of the first candidate that verifies, 0 for none
MatchIndexMutant(cands, apiKey) ==
    IF Len(cands) > 0 /\ VerifyAPIKey(apiKey, apiKeys[cands[1]].key_hash) THEN 1 ELSE 0
MatchIndex(cands, apiKey) ==
    LET hits == {i \in 1..Len(cands) : VerifyAPIKey(apiKey, apiKeys[cands[i]].key_hash)} IN
    IF hits = {} THEN 0 ELSE CHOOSE i \in hits : \A j \in hits : i <= j

\* c.Set("user_id", ..); c.Set("api_key_id", ..); c.Set("user", user)
SetAuthContextMutant(ctx, userID, apiKeyID, user) ==
    [ctx EXCEPT !.user_id = userID, !.api_key_id = userID, !.user = user]
SetAuthContextStaleMutant(ctx, userID, apiKeyID, user) ==
    [ctx EXCEPT !.user_id = userID, !.api_key_id = apiKeyID, !.user = InitialUsers[userID]]
SetAuthContext(ctx, userID, apiKeyID, user) ==
    [ctx EXCEPT !.user_id = userID, !.api_key_id = apiKeyID, !.user = user]

\* user, err := store.GetUserByID(authenticatedUserID)
\* if err != nil || !user.IsActive: no row is ErrNotFound
OwnerRejectedMutant(userID, failUser) ==
    failUser \/ (users[userID] # NoUser /\ ~users[userID].is_active)
OwnerRejected(userID, failUser) ==
    failUser \/ users[userID] = NoUser \/ ~users[userID].is_active

\* AuthMiddleware.  cands is the result of GetAPIKeyByPrefix in the order
\* the database returned it; failKeys and failUser are errors of the two
\* storage calls.
AuthMiddleware(cands, failKeys, failUser) ==
    /\ Current.mw = "AuthMiddleware"
    /\ LET apiKey == ExtractAPIKey(req.headers)
           m == MatchIndex(cands, apiKey)
       IN
       /\ cands \in RowOrders(GetAPIKeyByPrefix(GetKeyPrefix(apiKey)))
       /\ IF apiKey = <<>>
          THEN Abort(MissingKeyResponse) /\ UNCHANGED touchQ
          ELSE IF failKeys
          THEN Abort(LookupErrorResponse) /\ UNCHANGED touchQ
          ELSE IF Len(cands) = 0
          THEN Abort(NoCandidatesResponse) /\ UNCHANGED touchQ
          ELSE IF m # 0 /\ IsExpired(apiKeys[cands[m]].expires_at)
          THEN Abort(KeyExpiredResponse) /\ UNCHANGED touchQ
          ELSE IF m = 0
          THEN Abort(NoMatchResponse) /\ UNCHANGED touchQ
          ELSE LET apiKeyID == cands[m]
                   userID == apiKeys[apiKeyID].user_id
               IN
               IF OwnerRejected(userID, failUser)
               THEN Abort(InactiveResponse) /\ UNCHANGED touchQ
               ELSE /\ Proceed("AuthMiddleware",
                               SetAuthContext(req.ctx, userID, apiKeyID, users[userID]))
                    /\ touchQ' = touchQ \cup {apiKeyID}  \* go UpdateAPIKeyLastUsed
    /\ UNCHANGED <<hosts, pc, pend, last, users, apiKeys, issued, now, rateVars, acctVars>>

NoUserInContextResponse(mw) ==
    Response(401, "unauthorized", "User not found in context. Ensure AuthMiddleware is applied before " \o mw \o ".", <<>>, "")

\* OrgContextMiddleware: org_id and role of the authenticated user
OrgContextMiddlewareMutant ==
    /\ Current.mw = "OrgContextMiddleware"
    /\ Proceed("OrgContextMiddleware",
               [req.ctx EXCEPT !.org_id = req.ctx.user.org_id,
                               !.role = req.ctx.user.role])
    /\ UNCHANGED <<hosts, pc, pend, last, users, apiKeys, issued, now, touchQ, rateVars, acctVars>>
OrgContextMiddleware ==
    /\ Current.mw = "OrgContextMiddleware"
    /\ IF req.ctx.user = NoUser
       THEN Abort(NoUserInContextResponse("OrgContextMiddleware"))
       ELSE Proceed("OrgContextMiddleware",
                    [req.ctx EXCEPT !.org_id = req.ctx.user.org_id,
                                    !.role = req.ctx.user.role])
    /\ UNCHANGED <<hosts, pc, pend, last, users, apiKeys, issued, now, touchQ, rateVars, acctVars>>

\* go store.UpdateAPIKeyLastUsed(apiKeyID): the goroutine AuthMiddleware
\* started runs at some moment of its own, before or after the response.
\* UPDATE api_keys SET last_used_at = NOW() WHERE id = $1: an error of the
\* driver is returned to nobody, and a deleted row is no error.
UpdateAPIKeyLastUsedMutant(apiKeyID, fail) ==
    /\ apiKeyID \in touchQ
    /\ touchQ' = touchQ \ {apiKeyID}
    /\ IF fail
       THEN /\ req' = IF req.stage = "none" THEN req
                      ELSE [req EXCEPT !.stage = "aborted", !.resp = LookupErrorResponse]
            /\ UNCHANGED apiKeys
       ELSE /\ apiKeys' = [apiKeys EXCEPT ![apiKeyID].last_used_at = <<now>>]
            /\ UNCHANGED req
    /\ UNCHANGED <<hosts, pc, pend, last, users, issued, now, rateVars, acctVars>>
UpdateAPIKeyLastUsedUpsertMutant(apiKeyID, fail) ==
    /\ apiKeyID \in touchQ
    /\ touchQ' = touchQ \ {apiKeyID}
    /\ apiKeys' = IF fail THEN apiKeys
                  ELSE [apiKeys EXCEPT ![apiKeyID].last_used_at = <<now>>]
    /\ UNCHANGED <<hosts, pc, pend, last, users, issued, now, req, rateVars, acctVars>>
UpdateAPIKeyLastUsed(apiKeyID, fail) ==
    /\ apiKeyID \in touchQ
    /\ touchQ' = touchQ \ {apiKeyID}
    /\ apiKeys' = IF fail \/ apiKeys[apiKeyID] = NoKey
                  THEN apiKeys
                  ELSE [apiKeys EXCEPT ![apiKeyID].last_used_at = <<now>>]
    /\ UNCHANGED <<hosts, pc, pend, last, users, issued, now, req, rateVars, acctVars>>

\* RequireRole(requiredRoles...): the user's role is one of the list
RequireRoleNoAbortMutant ==
    /\ Current.mw = "RequireRole"
    /\ LET requiredRoles == Current.roles
           user == req.ctx.user
       IN
       IF user = NoUser
       THEN Abort(NoUserInContextResponse("RequireRole"))
       ELSE IF ~(\E i \in 1..Len(requiredRoles) : user.role = requiredRoles[i])
       THEN req' = [req EXCEPT !.idx = @ + 1, !.ran = Append(@, "RequireRole"),
                               !.resp = Response(403, "insufficient role",
                                   "Your role does not have permission to access this resource",
                                   requiredRoles, user.role)]
       ELSE Proceed("RequireRole", req.ctx)
    /\ UNCHANGED <<hosts, pc, pend, last, users, apiKeys, issued, now, touchQ, rateVars, acctVars>>
RequireRoleHierarchyMutant ==
    /\ Current.mw = "RequireRole"
    /\ LET requiredRoles == Current.roles
           user == req.ctx.user
       IN
       IF user = NoUser
       THEN Abort(NoUserInContextResponse("RequireRole"))
       ELSE IF ~(user.role = "admin"
                 \/ \E i \in 1..Len(requiredRoles) : user.role = requiredRoles[i])
       THEN Abort(Response(403, "insufficient role",
                           "Your role does not have permission to access this resource",
                           requiredRoles, user.role))
       ELSE Proceed("RequireRole", req.ctx)
    /\ UNCHANGED <<hosts, pc, pend, last, users, apiKeys, issued, now, touchQ, rateVars, acctVars>>
RequireRoleNoUserMutant ==
    /\ Current.mw = "RequireRole"
    /\ LET requiredRoles == Current.roles
           user == req.ctx.user
       IN
       IF user # NoUser /\ ~(\E i \in 1..Len(requiredRoles) : user.role = requiredRoles[i])
       THEN Abort(Response(403, "insufficient role",
                           "Your role does not have permission to access this resource",
                           requiredRoles, user.role))
       ELSE Proceed("RequireRole", req.ctx)
    /\ UNCHANGED <<hosts, pc, pend, last, users, apiKeys, issued, now, touchQ, rateVars, acctVars>>
RequireRole ==
    /\ Current.mw = "RequireRole"
    /\ LET requiredRoles == Current.roles
           user == req.ctx.user
       IN
       IF user = NoUser
       THEN Abort(NoUserInContextResponse("RequireRole"))
       ELSE IF ~(\E i \in 1..Len(requiredRoles) : user.role = requiredRoles[i])
       THEN Abort(Response(403, "insufficient role",
                           "Your role does not have permission to access this resource",
                           requiredRoles, user.role))
       ELSE Proceed("RequireRole", req.ctx)
    /\ UNCHANGED <<hosts, pc, pend, last, users, apiKeys, issued, now, touchQ, rateVars, acctVars>>

\* the route's own handler runs once every middleware has called c.Next()
ServeHandler ==
    /\ req.stage = "running"
    /\ req.idx > Len(RouteChain(req.route))
    /\ req' = [req EXCEPT !.stage = "served", !.handled = TRUE]
    /\ UNCHANGED <<hosts, pc, pend, last, users, apiKeys, issued, now, touchQ, rateVars, acctVars>>

----------------------------------------------------------------------------
(* The CSRF guard (CSRFTokens).  Header and cookie values are strings,     *)
(* kept as sequences of characters; "%2B" and "%zz" stand for a valid and  *)
(* for a malformed percent-escape.                                         *)

\* the X-CSRF-Token header (<<>>: absent or empty) and the Cookie header
\* (<<>>: no csrf_token cookie, <<v>>: the cookie with raw value v)
CSRFHeaders(token, cookie) ==
    [x_api_key |-> <<>>, authorization |-> <<>>, x_csrf_token |-> token,
     csrf_cookie |-> cookie]

CSRFHeaderChoices ==
    {CSRFHeaders(t, c) :
        t \in {<<>>, <<"t">>, <<"u">>, <<"t", "+">>, <<"t", " ">>},
        c \in {<<>>, <<<<>>>>, <<<<"t">>>>, <<<<"u">>>>, <<<<"t", "+">>>>,
               <<<<"t", "%2B">>>>, <<<<"t", "%zz">>>>}}

\* url.QueryUnescape, as gin's c.Cookie applies it to the raw value: '+' is
\* a space, %2B a '+', and a malformed escape makes the result empty
RECURSIVE UnescapeChars(_)
UnescapeChars(v) ==
    IF v = <<>> THEN <<>>
    ELSE <<(IF Head(v) = "+" THEN " " ELSE IF Head(v) = "%2B" THEN "+" ELSE Head(v))>>
         \o UnescapeChars(Tail(v))
QueryUnescape(v) ==
    IF \E i \in 1..Len(v) : v[i] = "%zz" THEN <<>> ELSE UnescapeChars(v)

\* c.Cookie("csrf_token"): <<value, found>>
Cookie(hd) ==
    IF hd.csrf_cookie = <<>> THEN <<<<>>, FALSE>>
    ELSE <<QueryUnescape(hd.csrf_cookie[1]), TRUE>>

\* path is one of the three authentication endpoints
IsAuthEndpointMutant(path) ==
    path \in {"/api/v1/auth/login", "/api/v1/auth/register", "/api/v1/auth/api-key",
              "/api/v1/auth/me"}
IsAuthEndpoint(path) ==
    path \in {"/api/v1/auth/login", "/api/v1/auth/register", "/api/v1/auth/api-key"}

\* providedToken == expectedToken && providedToken != ""
ValidateCSRFToken(providedToken, expectedToken) ==
    providedToken = expectedToken /\ providedToken # <<>>

CSRFFailedResponse == Response(403, "CSRF token validation failed", "", <<>>, "")

CSRFTokens ==
    /\ Current.mw = "CSRFTokens"
    /\ LET tokenFromHeader == req.headers.x_csrf_token
           cookie == Cookie(req.headers)
       IN
       IF ~IsStateChangingMethod(req.route.method)
       THEN Proceed("CSRFTokens", req.ctx)
       ELSE IF IsAuthEndpoint(req.route.path)
       THEN Proceed("CSRFTokens", req.ctx)
       ELSE IF tokenFromHeader = <<>>
       THEN Abort(CSRFFailedResponse)
       ELSE IF ~cookie[2] \/ cookie[1] = <<>>
       THEN Abort(CSRFFailedResponse)
       ELSE IF ~ValidateCSRFToken(tokenFromHeader, cookie[1])
       THEN Abort(CSRFFailedResponse)
       ELSE Proceed("CSRFTokens", req.ctx)
    /\ UNCHANGED <<hosts, pc, pend, last, users, apiKeys, issued, now, touchQ, rateVars, acctVars>>

\* the response is written and the request is over
Finish ==
    /\ req.stage \in {"aborted", "served"}
    /\ req' = NoReq
    /\ UNCHANGED <<hosts, pc, pend, last, users, apiKeys, issued, now, touchQ, rateVars, acctVars>>

----------------------------------------------------------------------------
(* The rate limiters (internal/middleware/ratelimit.go).  Each of the four *)
(* middleware values owns a limiter over a memory store of its own; the    *)
(* store counts the requests of a key in a fixed window that opens with    *)
(* the key's first request and lasts one period.  Several requests are in  *)
(* flight at once, one per connection; the store serialises its counter    *)
(* updates with a mutex, so one limiter.Get is one step.                   *)

Classes == {"general", "register", "login", "ingest"}
Conns == {"c1", "c2"}

\* c.ClientIP() of the callers
IPs == {<<"10.0.0.1">>, <<"10.0.0.2">>}

\* the limits of RATE_LIMIT_GENERAL, _REGISTER, _LOGIN and _INGEST, and the
\* length of the period "M" in ticks of the clock
GeneralLimit == 2
RegisterLimit == 1
LoginLimit == 2
IngestLimit == 1
Period == 1

\* a formatted rate "<limit>-M"; anything else does not parse
Formatted(limit) == <<limit, "M">>
NewRateFromFormatted(rateStr) ==
    IF Len(rateStr) = 2 /\ rateStr[2] = "M"
    THEN [ok |-> TRUE, limit |-> rateStr[1], period |-> Period]
    ELSE [ok |-> FALSE, limit |-> 0, period |-> 0]

getRateLimitConfig ==
    [GeneralLimit |-> Formatted(GeneralLimit), RegisterLimit |-> Formatted(RegisterLimit),
     LoginLimit |-> Formatted(LoginLimit), IngestLimit |-> Formatted(IngestLimit)]

\* a rate string that does not parse means the default rate
parseRate(rateStr) ==
    LET rate == NewRateFromFormatted(rateStr) IN
    IF rate.ok THEN [limit |-> rate.limit, period |-> rate.period]
    ELSE [limit |-> GeneralLimit, period |-> Period]

\* InitRateLimitMiddleware: the kind of middleware and the rate of each class
LimiterKind(class) ==
    IF class \in {"general", "ingest"} THEN "APIKeyRateLimitMiddleware"
    ELSE "IPRateLimitMiddleware"
RateOf(class) ==
    CASE class = "general" -> parseRate(getRateLimitConfig.GeneralLimit)
      [] class = "register" -> parseRate(getRateLimitConfig.RegisterLimit)
      [] class = "login" -> parseRate(getRateLimitConfig.LoginLimit)
      [] OTHER -> parseRate(getRateLimitConfig.IngestLimit)

\* the store a class's middleware counts in: memory.NewStore() in each
StoreOfMutant(class) == "general"
StoreOf(class) == class

\* the requests that arrive at the limiters: <<class, headers, client IP>>
RateRequests ==
    {<<"general", Headers(K1, <<>>), <<"10.0.0.1">>>>,
     <<"general", Headers(<<>>, <<"Bearer", K3>>), <<"10.0.0.1">>>>,
     <<"general", Headers(<<>>, <<>>), <<"10.0.0.2">>>>,
     <<"ingest", Headers(K1, <<>>), <<"10.0.0.1">>>>,
     <<"register", Headers(<<>>, <<"Bearer">>), <<"10.0.0.1">>>>,
     <<"login", Headers(<<>>, <<>>), <<"10.0.0.1">>>>}
RateKeys == IPs \cup {K1, K3}

\* the callers send at most this many requests
MaxRequests == 3

\* a counter of the memory store; NoCounter is a key the store does not hold
NoCounter == [value |-> 0, expiration |-> 0]

NoFlight ==
    [stage |-> "none", class |-> "-", headers |-> Headers(<<>>, <<>>), ip |-> <<>>,
     key |-> <<>>, window |-> 0, resp |-> [status |-> 0], handled |-> FALSE]

\* the key APIKeyRateLimitMiddleware counts under: X-API-Key, else the
\* second part of Authorization, else the client IP
RateLimitKey(hd, ip) ==
    LET apiKey == IF hd.x_api_key # <<>> THEN hd.x_api_key
                  ELSE IF hd.authorization # <<>> /\ Len(hd.authorization) = 2
                       THEN hd.authorization[2]
                       ELSE <<>>
    IN IF apiKey = <<>> THEN ip ELSE apiKey

\* the store's Increment: a counter that is missing or has expired starts
\* a new window with this request, any other counts one more
IncrementMutant(counter, rate) ==
    [value |-> counter.value + 1, expiration |-> now + rate.period]
Increment(counter, rate) ==
    IF counter.value = 0 \/ counter.expiration <= now
    THEN [value |-> 1, expiration |-> now + rate.period]
    ELSE [value |-> counter.value + 1, expiration |-> counter.expiration]

\* limiter.Context of a counter
ReachedMutant(counter, rate) == counter.value > rate.limit + 1
Reached(counter, rate) == counter.value > rate.limit

LimitReachedResponse(message, rate) ==
    [status |-> 429, error |-> "rate limit exceeded", message |-> message,
     retry_after |-> rate.period, limit |-> rate.limit]

\* a request of the class arrives at its limiter
Arrive(conn, class, hd, ip) ==
    /\ inflight[conn] = NoFlight
    /\ sent < MaxRequests
    /\ sent' = sent + 1
    /\ inflight' = [inflight EXCEPT ![conn] =
                      [NoFlight EXCEPT !.stage = "limiter", !.class = class,
                                       !.headers = hd, !.ip = ip]]
    /\ UNCHANGED <<hosts, pc, pend, last, users, apiKeys, issued, now, req, touchQ,
                   stores, admitted, acctVars>>

\* what a limiter does with the request once the key is chosen and
\* instance.Get has returned without an error
Limit(conn, key, message) ==
    LET f == inflight[conn]
        rate == RateOf(f.class)
        counter == Increment(stores[StoreOf(f.class)][key], rate)
    IN
    /\ stores' = [stores EXCEPT ![StoreOf(f.class)][key] = counter]
    /\ IF Reached(counter, rate)
       THEN /\ inflight' = [inflight EXCEPT ![conn] =
                   [f EXCEPT !.stage = "aborted", !.key = key,
                             !.window = counter.expiration,
                             !.resp = LimitReachedResponse(message, rate)]]
            /\ UNCHANGED admitted
       ELSE /\ inflight' = [inflight EXCEPT ![conn] =
                   [f EXCEPT !.stage = "next", !.key = key,
                             !.window = counter.expiration]]
            /\ admitted' = {a \in admitted : a.class # f.class \/ a.key # key
                                                \/ a.window = counter.expiration}
                   \cup {[class |-> f.class, key |-> key, window |-> counter.expiration,
                          nth |-> counter.value]}

\* the middleware of the general and ingest classes; on an error of
\* instance.Get it logs and calls c.Next()
APIKeyRateLimitMiddleware(conn, fail) ==
    /\ inflight[conn].stage = "limiter"
    /\ LimiterKind(inflight[conn].class) = "APIKeyRateLimitMiddleware"
    /\ LET key == RateLimitKey(inflight[conn].headers, inflight[conn].ip) IN
       IF fail
       THEN /\ inflight' = [inflight EXCEPT ![conn].stage = "next", ![conn].key = key]
            /\ UNCHANGED <<stores, admitted>>
       ELSE Limit(conn, key, "Too many requests")
    /\ UNCHANGED <<hosts, pc, pend, last, users, apiKeys, issued, now, req, touchQ, sent, acctVars>>

\* the middleware of the register and login classes: the library's gin
\* middleware keyed by c.ClientIP(), given a limit-reached handler and no
\* error handler, so an error of Limiter.Get goes to the default one,
\* which panics; the request ends without reaching the next handler
IPRateLimitMiddleware(conn, fail) ==
    /\ inflight[conn].stage = "limiter"
    /\ LimiterKind(inflight[conn].class) = "IPRateLimitMiddleware"
    /\ LET key == inflight[conn].ip IN
       IF fail
       THEN /\ inflight' = [inflight EXCEPT ![conn].stage = "aborted", ![conn].key = key,
                                            ![conn].resp = [status |-> 500]]
            /\ UNCHANGED <<stores, admitted>>
       ELSE Limit(conn, key, "Too many requests from this IP address")
    /\ UNCHANGED <<hosts, pc, pend, last, users, apiKeys, issued, now, req, touchQ, sent, acctVars>>

\* c.Next(): the handlers after the limiter run; of a request that was
\* served only the fact is kept
NextHandler(conn) ==
    /\ inflight[conn].stage = "next"
    /\ inflight' = [inflight EXCEPT ![conn] =
                      [NoFlight EXCEPT !.stage = "served", !.handled = TRUE]]
    /\ UNCHANGED <<hosts, pc, pend, last, users, apiKeys, issued, now, req, touchQ,
                   stores, admitted, sent, acctVars>>

\* the response is written and the connection is free again
Respond(conn) ==
    /\ inflight[conn].stage \in {"aborted", "served"}
    /\ inflight' = [inflight EXCEPT ![conn] = NoFlight]
    /\ UNCHANGED <<hosts, pc, pend, last, users, apiKeys, issued, now, req, touchQ,
                   stores, admitted, sent, acctVars>>

----------------------------------------------------------------------------
(* The handlers that issue API keys (internal/handlers: Login,             *)
(* CreateAPIKey, GetAPIKeyFromCredentials).  A handler runs from the       *)
(* request to the response in one step; its response is kept in last.      *)

\* the usernames callers send: the user ids, and a name nobody has
Usernames == UserIDs \cup {"nobody"}

\* every user's password is <<"pw", id>>; users.password_hash holds its hash
PasswordOf(u) == <<"pw", u>>
Passwords(username) == {PasswordOf(username), <<"wrong">>}
\* bcrypt.CompareHashAndPassword(hash, password) == nil
CheckPassword(password, hash) == hash = Bcrypt(password)

\* SELECT .. FROM users WHERE username = $1: the user, the hash, the error
GetUserByUsername(username) ==
    LET found == {u \in DOMAIN users : users[u] # NoUser /\ accounts[u].username = username}
    IN  IF found # {}
        THEN LET id == CHOOSE u \in found : TRUE
             IN  [user |-> users[id], id |-> id,
                  passwordHash |-> Bcrypt(PasswordOf(id)), err |-> NoErr]
        ELSE [user |-> NoUser, id |-> "-", passwordHash |-> Bcrypt(<<>>), err |-> ErrNotFound]

\* the JSON a handler answers with; key is the Token of a LoginResponse or
\* the Key of a CreateAPIKeyResponse, <<>> in a body that has neither
HandlerResponse(op, status, error, key, userID) ==
    [op |-> op, status |-> status, error |-> error, key |-> key, user_id |-> userID]

KeyIssuingOps == {"Login", "CreateAPIKey", "GetAPIKeyFromCredentials"}

\* the response when storage.CreateAPIKey returned an error
FailedToStoreMutant(op, plainKey) ==
    HandlerResponse(op, 500, "key stored later", plainKey, "-")
FailedToStore(op, plainKey) ==
    HandlerResponse(op, 500,
        IF op = "Login" THEN "failed to create session" ELSE "failed to create API key",
        <<>>, "-")

\* the response when auth.GenerateAPIKey returned an error
FailedToGenerate(op) ==
    HandlerResponse(op, 500,
        IF op = "Login" THEN "failed to create session" ELSE "failed to generate API key",
        <<>>, "-")

\* what the three handlers share: generate the key, store its hash and
\* prefix, and only then answer with the plaintext
GenerateStoreRespond(op, status, u, expiresAt, plainKey, failGenerate, failStore) ==
    IF failGenerate
    THEN /\ last' = FailedToGenerate(op)
         /\ UNCHANGED <<apiKeys, issued>>
    ELSE /\ plainKey \in KeySpace \ issued
         /\ issued' = issued \cup {plainKey}
         /\ IF failStore
            THEN /\ last' = FailedToStore(op, plainKey)
                 /\ UNCHANGED apiKeys
            ELSE /\ apiKeys' = [apiKeys EXCEPT ![KeyIDFor(plainKey)] =
                                  [user_id |-> u,
                                   key_hash |-> Bcrypt(Base64Decode(plainKey).bytes),
                                   key_prefix |-> GetKeyPrefix(plainKey),
                                   expires_at |-> expiresAt,
                                   last_used_at |-> <<>>]]
                 /\ last' = HandlerResponse(op, status, "", plainKey, u)

\* what Login and GetAPIKeyFromCredentials share: the caller proves who
\* they are with a username and a password; badJSON is a body that does
\* not bind
WithCredentials(op, badJSON, username, password, plainKey, failGenerate, failStore) ==
    LET got == GetUserByUsername(username) IN
    IF badJSON
    THEN /\ last' = HandlerResponse(op, 400, "bad request", <<>>, "-")
         /\ UNCHANGED <<apiKeys, issued>>
    ELSE IF got.err # NoErr
    THEN /\ last' = HandlerResponse(op, 401, "invalid credentials", <<>>, "-")
         /\ UNCHANGED <<apiKeys, issued>>
    ELSE IF ~got.user.is_active
    THEN /\ last' = HandlerResponse(op, 401, "account is inactive", <<>>, "-")
         /\ UNCHANGED <<apiKeys, issued>>
    ELSE IF ~CheckPassword(password, got.passwordHash)
    THEN /\ last' = HandlerResponse(op, 401, "invalid credentials", <<>>, "-")
         /\ UNCHANGED <<apiKeys, issued>>
    ELSE GenerateStoreRespond(op, 200, got.id, <<>>, plainKey, failGenerate, failStore)

Login(badJSON, username, password, plainKey, failGenerate, failStore) ==
    /\ WithCredentials("Login", badJSON, username, password, plainKey, failGenerate,
                       failStore)
    /\ UNCHANGED <<hosts, pc, pend, users, now, req, touchQ, rateVars, acctVars>>

GetAPIKeyFromCredentials(badJSON, username, password, plainKey, failGenerate, failStore) ==
    /\ WithCredentials("GetAPIKeyFromCredentials", badJSON, username, password, plainKey,
                       failGenerate, failStore)
    /\ UNCHANGED <<hosts, pc, pend, users, now, req, touchQ, rateVars, acctVars>>

\* userID is the user_id of the gin context, "-" when it is not set
CreateAPIKeyHandler(userID, badJSON, expiresAt, plainKey, failGenerate, failStore) ==
    /\ IF userID = "-"
       THEN /\ last' = HandlerResponse("CreateAPIKey", 401, "unauthorized", <<>>, "-")
            /\ UNCHANGED <<apiKeys, issued>>
       ELSE IF badJSON
       THEN /\ last' = HandlerResponse("CreateAPIKey", 400, "bad request", <<>>, "-")
            /\ UNCHANGED <<apiKeys, issued>>
       ELSE GenerateStoreRespond("CreateAPIKey", 201, userID, expiresAt, plainKey,
                                 failGenerate, failStore)
    /\ UNCHANGED <<hosts, pc, pend, users, now, req, touchQ, rateVars, acctVars>>

\* SELECT id, user_id, name, last_used_at, expires_at, created_at FROM
\* api_keys WHERE user_id = $1, as the models.APIKey values marshal to JSON
\* (key_hash and key_prefix are tagged json:"-")
ListedKeyMutant(k) ==
    [id |-> k, user_id |-> apiKeys[k].user_id, last_used_at |-> apiKeys[k].last_used_at,
     expires_at |-> apiKeys[k].expires_at, key_prefix |-> apiKeys[k].key_prefix]
ListedKey(k) ==
    [id |-> k, user_id |-> apiKeys[k].user_id, last_used_at |-> apiKeys[k].last_used_at,
     expires_at |-> apiKeys[k].expires_at]
GetAPIKeysByUserID(userID) ==
    {k \in KeyIDs : apiKeys[k] # NoKey /\ apiKeys[k].user_id = userID}

\* the JSON of ListAPIKeys and of DeleteAPIKey
ListResponse(op, status, error, userID, list) ==
    [op |-> op, status |-> status, error |-> error, key |-> <<>>, user_id |-> userID,
     list |-> list]

ListAPIKeys(userID, fail) ==
    /\ last' = IF userID = "-"
               THEN ListResponse("ListAPIKeys", 401, "unauthorized", "-", {})
               ELSE IF fail
               THEN ListResponse("ListAPIKeys", 500, "failed to retrieve API keys", "-", {})
               ELSE ListResponse("ListAPIKeys", 200, "", userID,
                                 {ListedKey(k) : k \in GetAPIKeysByUserID(userID)})
    /\ UNCHANGED <<hosts, pc, pend, users, apiKeys, issued, now, req, touchQ, rateVars,
                   acctVars>>

\* DELETE /api/v1/api-keys/:id: the key must be one of the caller's own
DeleteAPIKeyHandler(userID, keyID, failList, failDelete) ==
    /\ IF userID = "-"
       THEN /\ last' = ListResponse("DeleteAPIKey", 401, "unauthorized", "-", {})
            /\ UNCHANGED apiKeys
       ELSE IF failList
       THEN /\ last' = ListResponse("DeleteAPIKey", 500, "failed to verify ownership", "-", {})
            /\ UNCHANGED apiKeys
       ELSE IF keyID \notin GetAPIKeysByUserID(userID)
       THEN /\ last' = ListResponse("DeleteAPIKey", 404, "API key not found", "-", {})
            /\ UNCHANGED apiKeys
       ELSE IF failDelete
       THEN /\ last' = ListResponse("DeleteAPIKey", 500, "failed to delete API key", "-", {})
            /\ UNCHANGED apiKeys
       ELSE /\ apiKeys' = [apiKeys EXCEPT ![keyID] = NoKey]
            /\ last' = ListResponse("DeleteAPIKey", 204, "", userID, {})
    /\ UNCHANGED <<hosts, pc, pend, users, issued, now, req, touchQ, rateVars, acctVars>>

\* The response that carries a new key travels to the caller.  It arrives,
\* and the caller holds the key; or the connection breaks first, and the
\* caller, who cannot tell whether the request was carried out, sends the
\* request again.
KeyResponsePending == last.op \in KeyIssuingOps /\ last.key # <<>>

ResponseArrives ==
    /\ KeyResponsePending
    /\ callers' = [received |-> callers.received \cup {last.key},
                   retrying |-> callers.retrying \ {last.user_id}]
    /\ last' = NoCall
    /\ UNCHANGED <<hosts, pc, pend, users, apiKeys, issued, now, req, touchQ, rateVars,
                   orgs, accounts>>

ResponseLost ==
    /\ KeyResponsePending
    /\ callers' = [callers EXCEPT !.retrying = @ \cup {last.user_id}]
    /\ last' = NoCall
    /\ UNCHANGED <<hosts, pc, pend, users, apiKeys, issued, now, req, touchQ, rateVars,
                   orgs, accounts>>

----------------------------------------------------------------------------
(* Registration and user management (internal/handlers: Register,          *)
(* ListUsers, CreateUser, UpdateUserRole, DeleteUser) over the users and   *)
(* organizations tables.  users maps a user id to its row once the id has  *)
(* been given out, and to NoUser after the row was deleted: the database   *)
(* draws a fresh UUID for every row, so an id is never given out twice.    *)

\* the ids the database gives the rows inserted after the model starts
NewUserIDs == <<"u5">>
NewOrgIDs  == <<"orgC", "orgD">>
\* the organization names registration requests carry: one that an initial
\* row has, and others
OrgNameChoices == {"orgA", "acme"}

NoAccount == [username |-> "-", email |-> "-"]

\* gen_random_uuid(): the next id not given out yet
FreshID(ids, given) ==
    {ids[i] : i \in {j \in 1..Len(ids) :
                        /\ ids[j] \notin given
                        /\ \A m \in 1..(j - 1) : ids[m] \in given}}

UserRow(id) == IF id \in DOMAIN users THEN users[id] ELSE NoUser
StoredUsers == {u \in DOMAIN users : users[u] # NoUser}

\* SELECT .. FROM users WHERE email = $1 answers a row
GetUserByEmail(email) == \E u \in StoredUsers : accounts[u].email = email
\* SELECT .. FROM users WHERE username = $1 answers a row
UsernameStored(username) == \E u \in StoredUsers : accounts[u].username = username
\* SELECT .. FROM organizations WHERE name = $1: the ids of the rows
GetOrganizationByName(name) == {o \in DOMAIN orgs : orgs[o] = name}
\* SELECT COUNT(*) FROM users WHERE org_id = $1
CountUsersInOrganization(orgID) == Cardinality({u \in StoredUsers : users[u].org_id = orgID})
\* SELECT .. FROM users WHERE org_id = $1
ListUsersByOrganizationMutant(orgID) == StoredUsers
ListUsersByOrganization(orgID) == {u \in StoredUsers : users[u].org_id = orgID}

\* users.username and users.email are UNIQUE: the INSERT of a second row
\* with either is an error of the driver
UniqueViolation(username, email) == UsernameStored(username) \/ GetUserByEmail(email)

\* INSERT INTO users (username, email, password_hash, org_id, role)
CreateUser(id, orgID, role) ==
    [u \in DOMAIN users \cup {id} |->
        IF u = id THEN [org_id |-> orgID, role |-> role, is_active |-> TRUE] ELSE users[u]]
CreateAccount(id, username, email) ==
    [u \in DOMAIN accounts \cup {id} |->
        IF u = id THEN [username |-> username, email |-> email] ELSE accounts[u]]
\* INSERT INTO organizations (name)
CreateOrganization(id, name) ==
    [o \in DOMAIN orgs \cup {id} |-> IF o = id THEN name ELSE orgs[o]]

\* UPDATE users SET role = $1, updated_at = NOW() WHERE id = $2
UpdateUserRoleMutant(userID, role) ==
    [users EXCEPT ![userID] = [@ EXCEPT !.role = role, !.org_id = "orgB"]]
UpdateUserRole(userID, role) == [users EXCEPT ![userID] = [@ EXCEPT !.role = role]]

\* DELETE FROM users WHERE id = $1
DeleteUser(userID) == [users EXCEPT ![userID] = NoUser]
\* hosts.uploaded_by_user_id REFERENCES users ON DELETE RESTRICT
DeleteRestricted(userID) == \E h \in HostIDs : hosts[h].uploaded_by_user_id = userID
\* api_keys.user_id REFERENCES users ON DELETE CASCADE
DeleteCascade(userID) ==
    [k \in KeyIDs |-> IF apiKeys[k].user_id = userID THEN NoKey ELSE apiKeys[k]]

\* the JSON a user handler answers with: the status, gin.H's error, and the
\* user of the body (id "-" in a body that carries none)
UserResponse(op, status, error, id, row) ==
    [op |-> op, status |-> status, error |-> error, id |-> id,
     org_id |-> row.org_id, role |-> row.role, list |-> {}]

UserOps == {"Register", "ListUsers", "CreateUser", "UpdateUserRole", "DeleteUser"}

\* the storage calls of Register that may answer an error of the driver
RegisterFaults == {"GetUserByUsername", "GetUserByEmail", "GetOrganizationByName",
                   "CountUsersInOrganization", "CreateOrganization", "CreateUser"}

\* Register's answer to a name that GetOrganizationByName found
OrgNameConflictMutant(name, faults) ==
    /\ "GetOrganizationByName" \notin faults
    /\ \E o \in GetOrganizationByName(name) : CountUsersInOrganization(o) > 0
OrgNameConflict(name, faults) ==
    /\ "GetOrganizationByName" \notin faults
    /\ GetOrganizationByName(name) # {}

\* the role Register gives the user it creates
RegisterRole == "admin"

\* POST /api/v1/auth/register
Register(badJSON, username, email, orgName, faults) ==
    /\ IF badJSON
       THEN /\ last' = UserResponse("Register", 400, "bad request", "-", NoUser)
            /\ UNCHANGED <<users, orgs, accounts>>
       ELSE IF "GetUserByUsername" \notin faults /\ UsernameStored(username)
       THEN /\ last' = UserResponse("Register", 409, "username already exists", "-", NoUser)
            /\ UNCHANGED <<users, orgs, accounts>>
       ELSE IF "GetUserByEmail" \notin faults /\ GetUserByEmail(email)
       THEN /\ last' = UserResponse("Register", 409, "email already exists", "-", NoUser)
            /\ UNCHANGED <<users, orgs, accounts>>
       ELSE IF OrgNameConflict(orgName, faults)
       THEN /\ last' =
                IF "CountUsersInOrganization" \in faults
                THEN UserResponse("Register", 500, "failed to check organization", "-", NoUser)
                ELSE IF \E o \in GetOrganizationByName(orgName) :
                            CountUsersInOrganization(o) > 0
                THEN UserResponse("Register", 409, "organization already has a user", "-", NoUser)
                ELSE UserResponse("Register", 409, "organization name already exists", "-", NoUser)
            /\ UNCHANGED <<users, orgs, accounts>>
       ELSE IF "CreateOrganization" \in faults
       THEN /\ last' = UserResponse("Register", 500, "failed to create organization", "-", NoUser)
            /\ UNCHANGED <<users, orgs, accounts>>
       ELSE \E orgID \in FreshID(NewOrgIDs, DOMAIN orgs) :
            /\ orgs' = CreateOrganization(orgID, orgName)
            /\ IF "CreateUser" \in faults \/ UniqueViolation(username, email)
               THEN /\ last' = UserResponse("Register", 500, "failed to create user", "-", NoUser)
                    /\ UNCHANGED <<users, accounts>>
               ELSE \E id \in FreshID(NewUserIDs, DOMAIN users) :
                    /\ users' = CreateUser(id, orgID, RegisterRole)
                    /\ accounts' = CreateAccount(id, username, email)
                    /\ last' = UserResponse("Register", 201, "", id, users'[id])
    /\ UNCHANGED <<hosts, pc, pend, apiKeys, issued, now, req, touchQ, rateVars, callers>>

\* GET /api/v1/users: the users of the caller's organization
ListUsers(caller, fail) ==
    /\ last' = IF caller = "-"
               THEN UserResponse("ListUsers", 401, "unauthorized", "-", NoUser)
               ELSE IF fail
               THEN UserResponse("ListUsers", 500, "failed to retrieve users", "-", NoUser)
               ELSE [UserResponse("ListUsers", 200, "", "-", NoUser)
                        EXCEPT !.list = ListUsersByOrganization(users[caller].org_id)]
    /\ UNCHANGED <<hosts, pc, pend, users, apiKeys, issued, now, req, touchQ, rateVars,
                   acctVars>>

\* POST /api/v1/users: a user in the caller's organization
CreateUserHandler(caller, badJSON, username, email, role, faults) ==
    /\ IF caller = "-"
       THEN /\ last' = UserResponse("CreateUser", 401, "unauthorized", "-", NoUser)
            /\ UNCHANGED <<users, accounts>>
       ELSE IF badJSON
       THEN /\ last' = UserResponse("CreateUser", 400, "bad request", "-", NoUser)
            /\ UNCHANGED <<users, accounts>>
       ELSE IF "GetUserByUsername" \notin faults /\ UsernameStored(username)
       THEN /\ last' = UserResponse("CreateUser", 409, "username already exists", "-", NoUser)
            /\ UNCHANGED <<users, accounts>>
       ELSE IF "GetUserByEmail" \notin faults /\ GetUserByEmail(email)
       THEN /\ last' = UserResponse("CreateUser", 409, "email already exists", "-", NoUser)
            /\ UNCHANGED <<users, accounts>>
       ELSE IF "CreateUser" \in faults \/ UniqueViolation(username, email)
       THEN /\ last' = UserResponse("CreateUser", 500, "failed to create user", "-", NoUser)
            /\ UNCHANGED <<users, accounts>>
       ELSE \E id \in FreshID(NewUserIDs, DOMAIN users) :
            /\ users' = CreateUser(id, users[caller].org_id, role)
            /\ accounts' = CreateAccount(id, username, email)
            /\ last' = UserResponse("CreateUser", 201, "", id, users'[id])
    /\ UNCHANGED <<hosts, pc, pend, apiKeys, issued, now, req, touchQ, rateVars, orgs,
                   callers>>

\* currentUser.ID == userID
IsSelfMutant(caller, userID) == FALSE
IsSelf(caller, userID) == caller = userID

\* the answer of UpdateUserRole and DeleteUser to a user of another organization
NotInYourOrganization(op) == UserResponse(op, 403, "user not in your organization", "-", NoUser)
\* their answer when storage.GetUserByID found no row
UserNotFound(op) == UserResponse(op, 404, "user not found", "-", NoUser)

\* PUT /api/v1/users/:user_id/role, for the user that AuthMiddleware put
\* into the context: its id and its org_id as they were read then
UpdateUserRoleBody(caller, callerOrgID, userID, badJSON, role, failGet, failUpdate, failRefetch) ==
    /\ IF caller = "-"
       THEN /\ last' = UserResponse("UpdateUserRole", 401, "unauthorized", "-", NoUser)
            /\ UNCHANGED users
       ELSE IF IsSelf(caller, userID)
       THEN /\ last' = UserResponse("UpdateUserRole", 403, "cannot update own role", "-", NoUser)
            /\ UNCHANGED users
       ELSE IF failGet
       THEN /\ last' = UserResponse("UpdateUserRole", 500, "failed to retrieve user", "-", NoUser)
            /\ UNCHANGED users
       ELSE IF UserRow(userID) = NoUser
       THEN /\ last' = UserNotFound("UpdateUserRole")
            /\ UNCHANGED users
       ELSE IF users[userID].org_id # callerOrgID
       THEN /\ last' = NotInYourOrganization("UpdateUserRole")
            /\ UNCHANGED users
       ELSE IF badJSON
       THEN /\ last' = UserResponse("UpdateUserRole", 400, "bad request", "-", NoUser)
            /\ UNCHANGED users
       ELSE IF failUpdate
       THEN /\ last' = UserResponse("UpdateUserRole", 500, "failed to update user role", "-", NoUser)
            /\ UNCHANGED users
       ELSE /\ users' = UpdateUserRole(userID, role)
            /\ last' = IF failRefetch
                       THEN UserResponse("UpdateUserRole", 500,
                                         "failed to retrieve updated user", "-", NoUser)
                       ELSE UserResponse("UpdateUserRole", 200, "", userID, users'[userID])

\* the handler as one step, the context read in the same step
UpdateUserRoleHandler(caller, userID, badJSON, role, failGet, failUpdate, failRefetch) ==
    /\ UpdateUserRoleBody(caller, UserRow(caller).org_id, userID, badJSON, role,
                          failGet, failUpdate, failRefetch)
    /\ UNCHANGED <<hosts, pc, pend, apiKeys, issued, now, req, touchQ, rateVars, acctVars>>

\* DELETE /api/v1/users/:user_id, for the user of the context
DeleteUserBody(caller, callerOrgID, userID, failGet, failDelete) ==
    /\ IF caller = "-"
       THEN /\ last' = UserResponse("DeleteUser", 401, "unauthorized", "-", NoUser)
            /\ UNCHANGED <<users, accounts, apiKeys>>
       ELSE IF IsSelf(caller, userID)
       THEN /\ last' = UserResponse("DeleteUser", 403, "cannot delete yourself", "-", NoUser)
            /\ UNCHANGED <<users, accounts, apiKeys>>
       ELSE IF failGet
       THEN /\ last' = UserResponse("DeleteUser", 500, "failed to retrieve user", "-", NoUser)
            /\ UNCHANGED <<users, accounts, apiKeys>>
       ELSE IF UserRow(userID) = NoUser
       THEN /\ last' = UserNotFound("DeleteUser")
            /\ UNCHANGED <<users, accounts, apiKeys>>
       ELSE IF users[userID].org_id # callerOrgID
       THEN /\ last' = NotInYourOrganization("DeleteUser")
            /\ UNCHANGED <<users, accounts, apiKeys>>
       ELSE IF failDelete \/ DeleteRestricted(userID)
       THEN /\ last' = UserResponse("DeleteUser", 500, "failed to delete user", "-", NoUser)
            /\ UNCHANGED <<users, accounts, apiKeys>>
       ELSE /\ users' = DeleteUser(userID)
            /\ accounts' = [accounts EXCEPT ![userID] = NoAccount]
            /\ apiKeys' = DeleteCascade(userID)
            /\ last' = UserResponse("DeleteUser", 204, "", "-", NoUser)

DeleteUserHandler(caller, userID, failGet, failDelete) ==
    /\ DeleteUserBody(caller, UserRow(caller).org_id, userID, failGet, failDelete)
    /\ UNCHANGED <<hosts, pc, pend, issued, now, req, touchQ, rateVars, orgs, callers>>

----------------------------------------------------------------------------
(* Key generation and verification as functions (auth.GenerateAPIKey,      *)
(* auth.VerifyAPIKey).  Random bytes are written as their encoding with    *)
(* zero padding bits, which is the one EncodeToString produces.            *)

\* what rand.Read may fill keyBytes with
KeyBytesChoices ==
    {Pfx(c) \o <<d, e>> : c \in {"a", "b"}, d \in {"p", "q"}, e \in {"a", "w"}}

\* base64.URLEncoding.EncodeToString(keyBytes)
EncodeToString(keyBytes) == keyBytes

\* the plaintexts that differ from plainKey in exactly one character
SingleCharChanges(plainKey) ==
    {[plainKey EXCEPT ![i] = c] : i \in 1..Len(plainKey), c \in Base64Chars \cup {"!"}}
        \ {plainKey}

NoPair == [op |-> "-", plainKey |-> <<>>, keyHash |-> Bcrypt(<<>>), keyPrefix |-> <<>>,
           presented |-> <<>>, verified |-> FALSE]

\* plainKey, keyHash, keyPrefix of a new key
GenerateAPIKey(keyBytes) ==
    /\ last' = [NoPair EXCEPT !.op = "GenerateAPIKey",
                              !.plainKey = EncodeToString(keyBytes),
                              !.keyHash = Bcrypt(keyBytes),
                              !.keyPrefix = GetKeyPrefix(EncodeToString(keyBytes))]
    /\ UNCHANGED <<hosts, pc, pend, users, apiKeys, issued, now, req, touchQ, rateVars,
                   acctVars>>

\* VerifyAPIKey(presented, keyHash) on the hash of the generated pair
Verify(presented) ==
    /\ last.op \in {"GenerateAPIKey", "VerifyAPIKey"}
    /\ last' = [last EXCEPT !.op = "VerifyAPIKey", !.presented = presented,
                            !.verified = VerifyAPIKey(presented, last.keyHash)]
    /\ UNCHANGED <<hosts, pc, pend, users, apiKeys, issued, now, req, touchQ, rateVars,
                   acctVars>>

Init ==
    /\ hosts = [h \in HostIDs |-> NoHost]
    /\ pc = [w \in Workers |-> "idle"]
    /\ pend = [w \in Workers |-> NoPend]
    /\ last = NoCall
    /\ users = InitialUsers
    /\ apiKeys = [k \in KeyIDs |-> NoKey]
    /\ issued = {}
    /\ now = 0
    /\ req = NoReq
    /\ touchQ = {}
    /\ stores = [class \in Classes |-> [key \in RateKeys |-> NoCounter]]
    /\ inflight = [conn \in Conns |-> NoFlight]
    /\ admitted = {}
    /\ sent = 0
    /\ orgs = InitialOrgs
    /\ accounts = InitialAccounts
    /\ callers = NoCallers

Next ==
    \/ \E w \in Workers, h \in HostIDs, u \in UserIDs, d \in ReportData, fail \in BOOLEAN :
          SaveHostCheck(w, h, u, d, fail)
    \/ \E w \in Workers, fail \in BOOLEAN : SaveHostUpsert(w, fail)
    \/ \E h \in HostIDs, o \in OrgIDs, fail \in BOOLEAN : GetHost(h, o, fail)
    \/ \E h \in HostIDs, o \in OrgIDs, fail \in BOOLEAN : DeleteHost(h, o, fail)
    \/ \E o \in OrgIDs, fail \in BOOLEAN : ListHosts(o, fail)

Spec == Init /\ [][Next]_vars

AuthNext ==
    \/ \E u \in UserIDs, plainKey \in KeySpace, expiresAt \in ExpiryChoices :
          CreateAPIKey(u, plainKey, expiresAt)
    \/ \E k \in KeyIDs : DeleteAPIKey(k)
    \/ Tick
    \/ \E rq \in Requests : ServeHTTP(rq[1], rq[2])
    \/ \E cands \in UNION {RowOrders(S) : S \in SUBSET KeyIDs},
          failKeys \in BOOLEAN, failUser \in BOOLEAN :
          AuthMiddleware(cands, failKeys, failUser)
    \/ OrgContextMiddleware
    \/ RequireRole
    \/ ServeHandler
    \/ Finish

AuthSpec == Init /\ [][AuthNext]_vars

\* The middleware on directly registered routes: requests with the key of
\* any user, or with none.
ChainNext ==
    \/ \E u \in UserIDs, plainKey \in KeySpace : CreateAPIKey(u, plainKey, <<>>)
    \/ \E r \in DirectRoutes, hd \in {Headers(K1, <<>>), Headers(<<>>, <<>>)} :
          ServeHTTP(r, hd)
    \/ \E cands \in UNION {RowOrders(S) : S \in SUBSET KeyIDs} :
          AuthMiddleware(cands, FALSE, FALSE)
    \/ OrgContextMiddleware
    \/ RequireRole
    \/ ServeHandler
    \/ Finish

ChainSpec == Init /\ [][ChainNext]_vars

\* requests to the router guarded by CSRFTokens
CSRFNext ==
    \/ \E r \in CSRFRoutes, hd \in CSRFHeaderChoices : ServeHTTP(r, hd)
    \/ CSRFTokens
    \/ ServeHandler
    \/ Finish

CSRFSpec == Init /\ [][CSRFNext]_vars

\* concurrent requests to the rate-limited routes, while the key K1 is
\* issued and time passes
RateNext ==
    \/ CreateAPIKey("u1", K1, <<>>)
    \/ Tick
    \/ \E conn \in Conns, r \in RateRequests : Arrive(conn, r[1], r[2], r[3])
    \/ \E conn \in Conns, fail \in BOOLEAN : APIKeyRateLimitMiddleware(conn, fail)
    \/ \E conn \in Conns, fail \in BOOLEAN : IPRateLimitMiddleware(conn, fail)
    \/ \E conn \in Conns : NextHandler(conn)
    \/ \E conn \in Conns : Respond(conn)

RateSpec == Init /\ [][RateNext]_vars

\* the bodies the callers of Login and GetAPIKeyFromCredentials send, with
\* the faults that meet them: <<badJSON, username, password, failGenerate,
\* failStore>>.  A fault is drawn only for a call that gets as far as it.
CredentialCalls ==
    {<<TRUE, "u1", PasswordOf("u1"), FALSE, FALSE>>,
     <<FALSE, "nobody", <<"wrong">>, FALSE, FALSE>>,
     <<FALSE, "u4", PasswordOf("u4"), FALSE, FALSE>>,
     <<FALSE, "u4", <<"wrong">>, FALSE, FALSE>>,
     <<FALSE, "u1", <<"wrong">>, FALSE, FALSE>>}
    \cup {<<FALSE, u, PasswordOf(u), f[1], f[2]>> :
             u \in {"u1", "u2", "u3"},
             f \in {<<FALSE, FALSE>>, <<TRUE, FALSE>>, <<FALSE, TRUE>>}}

\* the same for CreateAPIKey: <<userID, badJSON, failGenerate, failStore>>
CreateCalls ==
    {<<"-", FALSE, FALSE, FALSE>>, <<"u1", TRUE, FALSE, FALSE>>}
    \cup {<<u, FALSE, f[1], f[2]>> :
             u \in {"u1", "u2", "u3"},
             f \in {<<FALSE, FALSE>>, <<TRUE, FALSE>>, <<FALSE, TRUE>>}}

\* callers of the key-issuing handlers, and keys being deleted
KeyNext ==
    \/ \E x \in CredentialCalls, plainKey \in KeySpace :
          Login(x[1], x[2], x[3], plainKey, x[4], x[5])
    \/ \E x \in CredentialCalls, plainKey \in KeySpace :
          GetAPIKeyFromCredentials(x[1], x[2], x[3], plainKey, x[4], x[5])
    \/ \E x \in CreateCalls, expiresAt \in ExpiryChoices, plainKey \in KeySpace :
          CreateAPIKeyHandler(x[1], x[2], expiresAt, plainKey, x[3], x[4])
    \/ \E k \in KeyIDs : DeleteAPIKey(k)
    \/ \E userID \in {"u1", "u2", "-"}, fail \in BOOLEAN : ListAPIKeys(userID, fail)
    \/ \E userID \in {"u1", "u2", "-"}, keyID \in KeyIDs, failList \in BOOLEAN,
          failDelete \in BOOLEAN : DeleteAPIKeyHandler(userID, keyID, failList, failDelete)
    \/ ResponseArrives
    \/ ResponseLost

KeySpec == Init /\ [][KeyNext]_vars

\* Registration and user management.  The router puts the user handlers
\* behind RequireRole("admin"), so their caller is a stored, active admin
\* (the handlers also answer a request with no user in the context); the
\* requests name every id given out and one that never was.
UserCallers == {u \in StoredUsers : users[u].is_active /\ users[u].role = "admin"}
UserTargets == DOMAIN users \cup {"u9"}

\* the username and the email of a request: both new, or one of them stored
NamePairs == {<<"n1", "n1">>, <<"u1", "n1">>, <<"n1", "u1">>}

\* the storage calls that fail during one request: none, one, or every lookup
FaultChoices(calls) ==
    {{}} \cup {{f} : f \in calls}
         \cup {calls \cap {"GetUserByUsername", "GetUserByEmail", "GetOrganizationByName"}}

\* of the n storage calls of one request, none fails or one does
StorageFailures(n) == {[i \in 1..n |-> FALSE]} \cup {[i \in 1..n |-> i = j] : j \in 1..n}

\* <<badJSON, faults>>: a body that does not bind, or one that does and the
\* storage calls that fail
RegisterCalls == {<<TRUE, {}>>} \cup {<<FALSE, faults>> : faults \in FaultChoices(RegisterFaults)}

\* <<caller, badJSON, role, faults>>
CreateUserCalls ==
    {<<"-", FALSE, "viewer", {}>>}
        \cup {<<caller, TRUE, "viewer", {}>> : caller \in UserCallers}
        \cup {<<caller, FALSE, role, {}>> : caller \in UserCallers, role \in Roles}
        \cup {<<caller, FALSE, "viewer", faults>> : caller \in UserCallers,
                faults \in FaultChoices({"GetUserByUsername", "GetUserByEmail", "CreateUser"})}

\* the ids named by the requests during which a storage call fails: the
\* caller's own, those of the caller's organization, one of another
FailureTargets(caller) ==
    {caller, "u2"} \cup ListUsersByOrganization(users[caller].org_id)

\* <<caller, userID, badJSON, role, failures>>
UpdateUserRoleCalls ==
    {<<"-", "u1", FALSE, "viewer", [i \in 1..3 |-> FALSE]>>}
        \cup {<<caller, userID, TRUE, "viewer", [i \in 1..3 |-> FALSE]>> :
                caller \in UserCallers, userID \in UserTargets}
        \cup {<<caller, userID, FALSE, role, [i \in 1..3 |-> FALSE]>> :
                caller \in UserCallers, userID \in UserTargets, role \in Roles}
        \cup UNION {{<<caller, userID, FALSE, "viewer", fails>> :
                        userID \in FailureTargets(caller), fails \in StorageFailures(3)} :
                     caller \in UserCallers}

\* <<caller, userID, failures>>
DeleteUserCalls ==
    {<<"-", "u1", [i \in 1..2 |-> FALSE]>>}
        \cup {<<caller, userID, [i \in 1..2 |-> FALSE]>> :
                caller \in UserCallers, userID \in UserTargets}
        \cup UNION {{<<caller, userID, fails>> :
                        userID \in FailureTargets(caller), fails \in StorageFailures(2)} :
                     caller \in UserCallers}

UserNext ==
    \/ \E x \in RegisterCalls, names \in NamePairs, orgName \in OrgNameChoices :
            Register(x[1], names[1], names[2], orgName, x[2])
    \/ \E caller \in UserCallers \cup {"-"}, fail \in BOOLEAN : ListUsers(caller, fail)
    \/ \E x \in CreateUserCalls, names \in NamePairs :
            CreateUserHandler(x[1], x[2], names[1], names[2], x[3], x[4])
    \/ \E x \in UpdateUserRoleCalls :
            UpdateUserRoleHandler(x[1], x[2], x[3], x[4], x[5][1], x[5][2], x[5][3])
    \/ \E x \in DeleteUserCalls : DeleteUserHandler(x[1], x[2], x[3][1], x[3][2])

UserSpec == Init /\ [][UserNext]_vars

\* User-management requests served by two goroutines at once.  A request
\* goes through AuthMiddleware and RequireRole("admin") first, which leave
\* the user row they read in the context; its handler runs later, on that
\* context.  Register and CreateUser do their lookups, then their INSERTs.
RaceUserIDs == <<"u5", "u6">>
RaceNames == {<<"n1", "n1">>, <<"n1", "n2">>, <<"n2", "n1">>}
RaceRoles == {"admin", "viewer"}

NoContext == [op |-> "-", caller |-> "-", org_id |-> "-", user_id |-> "-", role |-> "-",
              username |-> "-", email |-> "-", org_name |-> "-"]

\* AuthMiddleware sets "user" to the row of the key's owner and RequireRole
\* reads the role of that row: the request of an active admin passes both
AuthorizeAdmin(w, caller, op, userID, role) ==
    /\ pc[w] = "idle"
    /\ caller \in UserCallers
    /\ pc' = [pc EXCEPT ![w] = "authorized"]
    /\ pend' = [pend EXCEPT ![w] = [NoContext EXCEPT !.op = op, !.caller = caller,
                                        !.org_id = users[caller].org_id,
                                        !.user_id = userID, !.role = role]]
    /\ UNCHANGED <<hosts, last, users, authVars, rateVars, acctVars>>

RunUpdateUserRole(w) ==
    /\ pc[w] = "authorized"
    /\ pend[w].op = "UpdateUserRole"
    /\ UpdateUserRoleBody(pend[w].caller, pend[w].org_id, pend[w].user_id, FALSE,
                          pend[w].role, FALSE, FALSE, FALSE)
    /\ pc' = [pc EXCEPT ![w] = "idle"]
    /\ pend' = [pend EXCEPT ![w] = NoPend]
    /\ UNCHANGED <<hosts, apiKeys, issued, now, req, touchQ, rateVars, acctVars>>

RunDeleteUser(w) ==
    /\ pc[w] = "authorized"
    /\ pend[w].op = "DeleteUser"
    /\ DeleteUserBody(pend[w].caller, pend[w].org_id, pend[w].user_id, FALSE, FALSE)
    /\ pc' = [pc EXCEPT ![w] = "idle"]
    /\ pend' = [pend EXCEPT ![w] = NoPend]
    /\ UNCHANGED <<hosts, issued, now, req, touchQ, rateVars, orgs, callers>>

\* CreateUser up to its INSERT: the two lookups answer 409, or find nothing
CreateUserLookups(w, caller, username, email, role) ==
    /\ pc[w] = "idle"
    /\ caller \in UserCallers
    /\ IF UsernameStored(username)
       THEN /\ last' = UserResponse("CreateUser", 409, "username already exists", "-", NoUser)
            /\ UNCHANGED <<pc, pend>>
       ELSE IF GetUserByEmail(email)
       THEN /\ last' = UserResponse("CreateUser", 409, "email already exists", "-", NoUser)
            /\ UNCHANGED <<pc, pend>>
       ELSE /\ pc' = [pc EXCEPT ![w] = "insert"]
            /\ pend' = [pend EXCEPT ![w] = [NoContext EXCEPT !.op = "CreateUser",
                                                !.caller = caller,
                                                !.org_id = users[caller].org_id,
                                                !.role = role, !.username = username,
                                                !.email = email]]
            /\ UNCHANGED last
    /\ UNCHANGED <<hosts, users, authVars, rateVars, acctVars>>

\* h.storage.CreateUser of CreateUser and the answer to its result
CreateUserInsert(w) ==
    /\ pc[w] = "insert"
    /\ pend[w].op = "CreateUser"
    /\ IF UniqueViolation(pend[w].username, pend[w].email)
       THEN /\ last' = UserResponse("CreateUser", 500, "failed to create user", "-", NoUser)
            /\ UNCHANGED <<users, accounts>>
       ELSE \E id \in FreshID(RaceUserIDs, DOMAIN users) :
            /\ users' = CreateUser(id, pend[w].org_id, pend[w].role)
            /\ accounts' = CreateAccount(id, pend[w].username, pend[w].email)
            /\ last' = UserResponse("CreateUser", 201, "", id, users'[id])
    /\ pc' = [pc EXCEPT ![w] = "idle"]
    /\ pend' = [pend EXCEPT ![w] = NoPend]
    /\ UNCHANGED <<hosts, apiKeys, issued, now, req, touchQ, rateVars, orgs, callers>>

\* Register up to its INSERTs: the lookups of the username, the email and
\* the organization name
RegisterLookups(w, username, email, orgName) ==
    /\ pc[w] = "idle"
    /\ IF UsernameStored(username)
       THEN /\ last' = UserResponse("Register", 409, "username already exists", "-", NoUser)
            /\ UNCHANGED <<pc, pend>>
       ELSE IF GetUserByEmail(email)
       THEN /\ last' = UserResponse("Register", 409, "email already exists", "-", NoUser)
            /\ UNCHANGED <<pc, pend>>
       ELSE IF OrgNameConflict(orgName, {})
       THEN /\ last' =
                IF \E o \in GetOrganizationByName(orgName) : CountUsersInOrganization(o) > 0
                THEN UserResponse("Register", 409, "organization already has a user", "-", NoUser)
                ELSE UserResponse("Register", 409, "organization name already exists", "-", NoUser)
            /\ UNCHANGED <<pc, pend>>
       ELSE /\ pc' = [pc EXCEPT ![w] = "insert"]
            /\ pend' = [pend EXCEPT ![w] = [NoContext EXCEPT !.op = "Register",
                                                !.username = username, !.email = email,
                                                !.org_name = orgName]]
            /\ UNCHANGED last
    /\ UNCHANGED <<hosts, users, authVars, rateVars, acctVars>>

\* h.storage.CreateOrganization and h.storage.CreateUser of Register
RegisterInsert(w) ==
    /\ pc[w] = "insert"
    /\ pend[w].op = "Register"
    /\ \E orgID \in FreshID(NewOrgIDs, DOMAIN orgs) :
            /\ orgs' = CreateOrganization(orgID, pend[w].org_name)
            /\ IF UniqueViolation(pend[w].username, pend[w].email)
               THEN /\ last' = UserResponse("Register", 500, "failed to create user", "-", NoUser)
                    /\ UNCHANGED <<users, accounts>>
               ELSE \E id \in FreshID(RaceUserIDs, DOMAIN users) :
                    /\ users' = CreateUser(id, orgID, RegisterRole)
                    /\ accounts' = CreateAccount(id, pend[w].username, pend[w].email)
                    /\ last' = UserResponse("Register", 201, "", id, users'[id])
    /\ pc' = [pc EXCEPT ![w] = "idle"]
    /\ pend' = [pend EXCEPT ![w] = NoPend]
    /\ UNCHANGED <<hosts, apiKeys, issued, now, req, touchQ, rateVars, callers>>

\* two admins' role updates and deletions in flight at once
RaceNext ==
    \/ \E w \in Workers, caller \in UserCallers, userID \in DOMAIN users, role \in RaceRoles :
            AuthorizeAdmin(w, caller, "UpdateUserRole", userID, role)
    \/ \E w \in Workers, caller \in UserCallers, userID \in DOMAIN users :
            AuthorizeAdmin(w, caller, "DeleteUser", userID, "-")
    \/ \E w \in Workers : RunUpdateUserRole(w)
    \/ \E w \in Workers : RunDeleteUser(w)

RaceSpec == Init /\ [][RaceNext]_vars

\* two requests that create a user in flight at once
InsertNext ==
    \/ \E w \in Workers, caller \in UserCallers, names \in RaceNames :
            CreateUserLookups(w, caller, names[1], names[2], "viewer")
    \/ \E w \in Workers : CreateUserInsert(w)
    \/ \E w \in Workers, names \in RaceNames, orgName \in OrgNameChoices :
            RegisterLookups(w, names[1], names[2], orgName)
    \/ \E w \in Workers : RegisterInsert(w)

InsertSpec == Init /\ [][InsertNext]_vars

\* MockStorage.DeleteUser: the row, its username, email and password go;
\* the keys of the user stay in m.apiKeys
MockDeleteUser(userID) ==
    /\ UserRow(userID) # NoUser
    /\ users' = DeleteUser(userID)
    /\ accounts' = [accounts EXCEPT ![userID] = NoAccount]
    /\ UNCHANGED <<storeVars, authVars, rateVars, orgs, callers>>

\* users.is_active: no handler writes the column, an operator does
SetActive(userID, active) ==
    /\ UserRow(userID) # NoUser
    /\ users[userID].is_active # active
    /\ users' = [users EXCEPT ![userID] = [@ EXCEPT !.is_active = active]]
    /\ UNCHANGED <<storeVars, authVars, rateVars, acctVars>>

\* the routes of the requests of RevokeSpec: one open to every role, one to
\* editors and admins, one to admins
RevokeRoutes ==
    {Route("GET", "/api/v1/hosts"), Route("DELETE", "/api/v1/hosts/:host_id"),
     Route("GET", "/api/v1/users")}

\* Requests with the keys of u1 and u3 while the admins of their
\* organization change roles and delete users, and an operator switches
\* accounts off and on.
RevokeNext ==
    \/ CreateAPIKey("u1", K1, <<>>)
    \/ CreateAPIKey("u3", K2, <<>>)
    \/ \E r \in RevokeRoutes, plainKey \in KeySpace : ServeHTTP(r, Headers(plainKey, <<>>))
    \/ \E cands \in UNION {RowOrders(S) : S \in SUBSET KeyIDs} :
          AuthMiddleware(cands, FALSE, FALSE)
    \/ OrgContextMiddleware
    \/ RequireRole
    \/ ServeHandler
    \/ Finish
    \/ \E apiKeyID \in KeyIDs : UpdateAPIKeyLastUsed(apiKeyID, FALSE)
    \/ \E caller \in UserCallers, userID \in {"u1", "u3"}, role \in RaceRoles :
          UpdateUserRoleHandler(caller, userID, FALSE, role, FALSE, FALSE, FALSE)
    \/ \E caller \in UserCallers, userID \in {"u1", "u3"} :
          DeleteUserHandler(caller, userID, FALSE, FALSE)
    \/ \E userID \in {"u1", "u3"} : MockDeleteUser(userID)
    \/ \E userID \in {"u1", "u3"}, active \in BOOLEAN : SetActive(userID, active)

RevokeSpec == Init /\ [][RevokeNext]_vars

\* the requests of PipelineSpec: with the key of a viewer, of an admin and
\* with none, to a route every role may use, one for editors and admins,
\* one for admins, and one whose chain starts at OrgContextMiddleware
PipelineRequests ==
    {Route("GET", "/api/v1/hosts"), Route("DELETE", "/api/v1/hosts/:host_id"),
     Route("GET", "/api/v1/users"), Route("GET", "/direct/org")}
        \X {Headers(K1, <<>>), Headers(K2, <<>>), Headers(<<>>, <<>>)}

\* the requests to the router behind CSRFTokens
PipelineCSRFRequests ==
    {CSRFRoute("POST", "/test"), CSRFRoute("GET", "/test")}
        \X {CSRFHeaders(<<>>, <<>>), CSRFHeaders(<<"t">>, <<<<"t">>>>),
            CSRFHeaders(<<"t">>, <<<<"u">>>>)}

\* the requests that meet a limiter
PipelineRateRequests ==
    {<<"general", Headers(K1, <<>>), <<"10.0.0.1">>>>,
     <<"login", Headers(<<>>, <<>>), <<"10.0.0.1">>>>}

\* Every stage that can refuse a request, each in the chain it is installed
\* in: the limiters, AuthMiddleware, OrgContextMiddleware, RequireRole and
\* CSRFTokens.
PipelineNext ==
    \/ CreateAPIKey("u3", K1, <<>>)
    \/ CreateAPIKey("u1", K2, <<>>)
    \/ \E rq \in PipelineRequests \cup PipelineCSRFRequests : ServeHTTP(rq[1], rq[2])
    \/ \E cands \in UNION {RowOrders(S) : S \in SUBSET KeyIDs},
          failKeys \in BOOLEAN, failUser \in BOOLEAN :
          AuthMiddleware(cands, failKeys, failUser)
    \/ OrgContextMiddleware
    \/ RequireRole
    \/ CSRFTokens
    \/ ServeHandler
    \/ Finish
    \/ \E apiKeyID \in KeyIDs : UpdateAPIKeyLastUsed(apiKeyID, FALSE)
    \/ \E r \in PipelineRateRequests : Arrive("c1", r[1], r[2], r[3])
    \/ \E fail \in BOOLEAN : APIKeyRateLimitMiddleware("c1", fail)
    \/ \E fail \in BOOLEAN : IPRateLimitMiddleware("c1", fail)
    \/ NextHandler("c1")
    \/ Respond("c1")

PipelineSpec == Init /\ [][PipelineNext]_vars

\* Requests of an admin, an editor and a viewer on every route behind
\* AuthMiddleware, while the goroutines that record the last use of a key
\* run, fail, or are still waiting when the response is written.
TouchNext ==
    \/ \E u \in {"u1", "u2", "u3"}, plainKey \in KeySpace : CreateAPIKey(u, plainKey, <<>>)
    \/ \E k \in KeyIDs : DeleteAPIKey(k)
    \/ Tick
    \/ \E r \in AuthenticatedRoutes, hd \in {Headers(K1, <<>>), Headers(K2, <<>>)} :
          ServeHTTP(r, hd)
    \/ \E cands \in UNION {RowOrders(S) : S \in SUBSET KeyIDs} :
          AuthMiddleware(cands, FALSE, FALSE)
    \/ OrgContextMiddleware
    \/ RequireRole
    \/ ServeHandler
    \/ Finish
    \/ \E apiKeyID \in KeyIDs, fail \in BOOLEAN : UpdateAPIKeyLastUsed(apiKeyID, fail)

TouchSpec == Init /\ [][TouchNext]_vars

\* A key is generated, and its plaintext or a plaintext one character off
\* is verified against its hash.
VerifyNext ==
    \/ \E keyBytes \in KeyBytesChoices : GenerateAPIKey(keyBytes)
    \/ /\ last.op \in {"GenerateAPIKey", "VerifyAPIKey"}
       /\ \E presented \in {last.plainKey} \cup SingleCharChanges(last.plainKey) :
             Verify(presented)

VerifySpec == Init /\ [][VerifyNext]_vars

----------------------------------------------------------------------------
(* Tenant isolation of the host storage.                                   *)

DriverWorked == ~IsDriverError(last.err)

\* C1: reading host h under scope o returns h's report if and only if h is
\* stored with org_id = o; a host stored under another organization gives
\* exactly the outcome (no report, ErrNotFound) of an id stored nowhere.
C1_GetHostScoped ==
    /\ (last.op = "GetHost" /\ DriverWorked) =>
          IF Stored(last.host_id) /\ hosts[last.host_id].org_id = last.org_id
          THEN /\ last.err = NoErr
               /\ last.report = [host_id |-> last.host_id, data |-> hosts[last.host_id].data]
          ELSE /\ last.err = ErrNotFound
               /\ last.report = NoReport
    /\ \A o \in OrgIDs, h1 \in HostIDs, h2 \in HostIDs :
          (Stored(h1) /\ hosts[h1].org_id # o /\ ~Stored(h2)) =>
              GetHostResult(h1, o) = GetHostResult(h2, o)

\* C1's case: a read under orgB of a host that orgA owns, answered not found.
C1_Witness ==
    /\ last.op = "GetHost" /\ last.org_id = "orgB" /\ last.err = ErrNotFound
    /\ Stored(last.host_id) /\ hosts[last.host_id].org_id = "orgA"
    /\ \E h2 \in HostIDs : ~Stored(h2)

\* C2: a list taken under organization B contains only hosts whose stored
\* org_id is B, whatever saves and deletes came before, also when B owns none.
C2_ListHostsScoped ==
    (last.op = "ListHosts" /\ DriverWorked) =>
        \A s \in last.list :
            /\ s.org_id = last.org_id
            /\ Stored(s.host_id)
            /\ hosts[s.host_id].org_id = last.org_id

\* C2's case: orgB lists while it owns nothing and orgA owns a host.
C2_Witness ==
    /\ last.op = "ListHosts" /\ last.org_id = "orgB" /\ last.err = NoErr
    /\ last.list = {}
    /\ \E h \in HostIDs : Stored(h) /\ hosts[h].org_id = "orgA"

\* C3: a save under organization B of a host_id that is stored under another
\* organization A when the save is made is rejected, and the stored host row
\* (org_id, uploader, data) and every other row stay as they were.
C3_SaveHostNoReown ==
    [][\A w \in Workers, h \in HostIDs, u \in UserIDs, d \in ReportData :
          (SaveHostCheck(w, h, u, d, FALSE) /\ Stored(h) /\ hosts[h].org_id # users[u].org_id)
             => /\ hosts' = hosts
                /\ pc'[w] = "idle"
                /\ last'.op = "SaveHost" /\ last'.host_id = h
                /\ last'.err # NoErr]_vars

\* C3's case: a save under orgB was rejected and the host is still orgA's.
C3_Witness ==
    /\ last.op = "SaveHost" /\ last.org_id = "orgB" /\ last.err = ErrOtherOrg
    /\ Stored(last.host_id) /\ hosts[last.host_id].org_id = "orgA"

\* C4: deleting host h under scope o removes h only if h is stored with
\* org_id = o; otherwise the answer is the ErrNotFound of a non-existent id
\* and no stored host is removed or changed.
C4_DeleteHostScoped ==
    [][\A h \in HostIDs, o \in OrgIDs :
          DeleteHost(h, o, FALSE) =>
             IF Stored(h) /\ hosts[h].org_id = o
             THEN /\ hosts' = [hosts EXCEPT ![h] = NoHost]
                  /\ last'.err = NoErr
             ELSE /\ hosts' = hosts
                  /\ last'.err = ErrNotFound]_vars

\* C4's case: a delete under orgB of orgA's host, answered not found, the
\* host still stored.
C4_Witness ==
    /\ last.op = "DeleteHost" /\ last.org_id = "orgB" /\ last.err = ErrNotFound
    /\ Stored(last.host_id) /\ hosts[last.host_id].org_id = "orgA"

\* C5: a save rejected because the host_id belongs to another organization is
\* surfaced as a Conflict: an error that is neither NotFound (errors.Is(err,
\* ErrNotFound) is false) nor the Internal error of a failed driver call.
C5_RejectedSaveIsConflict ==
    (last.op = "SaveHost" /\ last.err # NoErr /\ ~IsDriverError(last.err))
    => ~IsNotFound(last.err)

----------------------------------------------------------------------------
(* The claims about the Authentication Stage (AuthSpec).                   *)

PresentedKey == ExtractAPIKey(req.headers)

\* the stored keys sharing the presented key's prefix
PrefixMatches == {k \in KeyIDs : apiKeys[k] # NoKey
                                 /\ apiKeys[k].key_prefix = GetKeyPrefix(PresentedKey)}
Verifying == {k \in PrefixMatches : VerifyAPIKey(PresentedKey, apiKeys[k].key_hash)}

\* a stored key verifies, has not expired, and its owner exists and is active
CredentialValid ==
    \E k \in Verifying :
        /\ apiKeys[k].expires_at = <<>> \/ now <= apiKeys[k].expires_at[1]
        /\ users[apiKeys[k].user_id] # NoUser
        /\ users[apiKeys[k].user_id].is_active

\* a step of AuthMiddleware, with or without failing storage calls
AuthStep(failKeys, failUser) ==
    /\ Current.mw = "AuthMiddleware"
    /\ req' # req
    /\ \E cands \in RowOrders(PrefixMatches) : AuthMiddleware(cands, failKeys, failUser)

AuthPassed ==
    /\ req'.stage = "running" /\ req'.idx = req.idx + 1
    /\ req'.ran = Append(req.ran, "AuthMiddleware")
AuthTerminated ==
    /\ req'.stage = "aborted" /\ req'.ran = req.ran /\ ~req'.handled

\* C6: the Authentication Stage passes a request on if and only if the
\* presented key verifies against a stored key sharing its prefix (whatever the
\* order and number of the prefix matches), that key is not expired and its
\* owning user exists and is active; otherwise the request is terminated, and
\* a terminated request runs no later stage and no handler.
C6_AuthPassesIffValid ==
    [][/\ \A fk \in BOOLEAN, fu \in BOOLEAN :
             AuthStep(fk, fu) => /\ AuthPassed \/ AuthTerminated
                                 /\ AuthPassed => CredentialValid
       /\ AuthStep(FALSE, FALSE) => (AuthPassed <=> CredentialValid)
       /\ req.stage = "aborted" => (req' = req \/ req' = NoReq)]_vars

\* the second of two stored keys sharing a prefix has let a request pass
C6_Witness ==
    /\ req.stage = "running" /\ req.ran = <<"AuthMiddleware">>
    /\ apiKeys["k1"] # NoKey /\ apiKeys["k2"] # NoKey
    /\ apiKeys["k1"].key_prefix = apiKeys["k2"].key_prefix
    /\ req.ctx.api_key_id = "k2"

\* C7: a request whose key prefix matches no stored key and a request whose
\* prefix matches stored keys none of which verifies get the same response,
\* status and body.
C7_InvalidIndistinguishable ==
    [][\A fu \in BOOLEAN :
          (AuthStep(FALSE, fu) /\ PresentedKey # <<>> /\ Verifying = {})
          => /\ req'.stage = "aborted"
             /\ req'.resp = NoCandidatesResponse
             /\ req'.ctx = req.ctx]_vars

\* a key was refused as invalid while a stored key has its prefix
C7_Witness ==
    /\ req.stage = "aborted" /\ req.resp = NoCandidatesResponse
    /\ PresentedKey # <<>> /\ PrefixMatches # {} /\ Verifying = {}

\* C8: a request whose key verifies against a stored key whose expiry time
\* has passed is terminated as Unauthorized with a response saying the key
\* has expired, distinct from the invalid-key response, and its handler
\* never runs.
C8_ExpiredDistinct ==
    [][/\ \A fu \in BOOLEAN :
             (/\ AuthStep(FALSE, fu)
              /\ \E k \in Verifying : /\ apiKeys[k].expires_at # <<>>
                                      /\ now > apiKeys[k].expires_at[1])
             => /\ req'.stage = "aborted"
                /\ req'.resp.status = 401
                /\ req'.resp.error = "API key expired"
                /\ req'.resp # NoCandidatesResponse /\ req'.resp # NoMatchResponse
       /\ (req.stage = "aborted" /\ req.resp.error = "API key expired")
             => ~req'.handled]_vars

\* an expired key was presented and refused as expired
C8_Witness ==
    /\ req.stage = "aborted" /\ req.resp.error = "API key expired"
    /\ \E k \in Verifying : apiKeys[k].expires_at # <<>> /\ now > apiKeys[k].expires_at[1]

\* C9: when the Authentication Stage passes a request on, the context holds
\* the id of the stored key that verified, the id of its owning user and that
\* user's full record; on every terminating path none of the three is set.
C9_AuthContext ==
    [][\A fk \in BOOLEAN, fu \in BOOLEAN :
          AuthStep(fk, fu)
          => IF AuthPassed
             THEN \E k \in Verifying :
                     /\ req'.ctx.api_key_id = k
                     /\ req'.ctx.user_id = apiKeys[k].user_id
                     /\ req'.ctx.user = users[apiKeys[k].user_id]
             ELSE /\ req'.ctx.api_key_id = "-"
                  /\ req'.ctx.user_id = "-"
                  /\ req'.ctx.user = NoUser]_vars

\* the request passed with the key k1 of the viewer u3
C9_Witness ==
    /\ req.stage = "running" /\ req.ran = <<"AuthMiddleware">>
    /\ req.ctx.api_key_id = "k1" /\ req.ctx.user_id = "u3"
    /\ req.ctx.user = InitialUsers["u3"]

\* the stages the pipeline description names, for a route
AllStages(r) ==
    <<"RateLimiter", "AuthMiddleware", "OrgContextMiddleware">>
    \o (IF IsStateChangingMethod(r.method) THEN <<"CSRFGuard">> ELSE <<>>)
    \o <<"RequireRole">>

RolesOf(r) ==
    IF r \in AdminOnlyRoutes THEN {"admin"}
    ELSE IF r \in EditorOrAdminRoutes \cup IngestRoutes THEN {"editor", "admin"}
    ELSE {}

----------------------------------------------------------------------------
(* The claims about the Authorization and Tenant/Role Context stages       *)
(* (ChainSpec).                                                            *)

\* the middleware mw has called c.Next()
StagePassed(mw) ==
    /\ req'.stage = "running" /\ req'.idx = req.idx + 1
    /\ req'.ran = Append(req.ran, mw)

\* the middleware at which the request stands, also once it is aborted
StandsAt == RouteChain(req.route)[req.idx]

\* C11: RequireRole(allowed...) passes a request if and only if the caller's
\* role is a member of allowed: no role implies another, and a caller whose
\* role is not a member is terminated with Forbidden.
C11_RoleMembership ==
    [][(Current.mw = "RequireRole" /\ req.ctx.user # NoUser /\ RequireRole)
       => LET allowed == {Current.roles[i] : i \in 1..Len(Current.roles)} IN
          /\ StagePassed("RequireRole") <=> req.ctx.user.role \in allowed
          /\ req.ctx.user.role \notin allowed
                => /\ req'.stage = "aborted" /\ req'.resp.status = 403
                   /\ req'.resp.required_roles = Current.roles
                   /\ req'.resp.your_role = req.ctx.user.role
                   /\ ~req'.handled]_vars

\* an admin was refused by RequireRole("editor")
C11_Witness ==
    /\ req.stage = "aborted" /\ req.resp.status = 403
    /\ req.ctx.user # NoUser /\ req.ctx.user.role = "admin"
    /\ StandsAt = Mw("RequireRole", <<"editor">>)

\* C12: RequireRole on a request with no user record in the context
\* terminates the request, whatever the list of allowed roles, so that no
\* handler behind RequireRole runs without an authenticated user.
C12_RoleNeedsUser ==
    [][/\ (Current.mw = "RequireRole" /\ req.ctx.user = NoUser /\ RequireRole)
          => /\ req'.stage = "aborted" /\ req'.resp.status = 401
             /\ req'.ran = req.ran /\ ~req'.handled
       /\ (req'.handled /\ \E i \in 1..Len(RouteChain(req'.route)) :
                              RouteChain(req'.route)[i].mw = "RequireRole")
          => req'.ctx.user # NoUser]_vars

\* RequireRole("editor", "admin") met a request without a user and ended it
C12_Witness ==
    /\ req.stage = "aborted" /\ req.resp.status = 401 /\ req.ctx.user = NoUser
    /\ StandsAt = Mw("RequireRole", <<"editor", "admin">>)

\* C13: the Tenant/Role Context Stage on a request for which no
\* Authentication Stage has succeeded terminates it as Unauthorized, sets
\* neither org_id nor role, and no later stage or handler runs.
C13_OrgContextNeedsUser ==
    [][/\ (Current.mw = "OrgContextMiddleware" /\ req.ctx.user = NoUser
              /\ OrgContextMiddleware)
          => /\ req'.stage = "aborted" /\ req'.resp.status = 401
             /\ req'.ctx.org_id = "-" /\ req'.ctx.role = "-"
             /\ req'.ran = req.ran /\ ~req'.handled
       /\ (req.stage = "aborted" /\ req.route \in DirectRoutes)
          => (req' = req \/ req' = NoReq)]_vars

\* OrgContextMiddleware, registered before a RequireRole, ended the request
C13_Witness ==
    /\ req.stage = "aborted" /\ req.resp.status = 401
    /\ req.route = Route("GET", "/direct/org-role")
    /\ req.idx = 1 /\ req.ran = <<>> /\ req.ctx = NoCtx

----------------------------------------------------------------------------
(* The claim about the CSRF Guard (CSRFSpec).                              *)

\* the value of the csrf_token cookie as the server reads it; <<>> without one
CookieValue ==
    IF req.headers.csrf_cookie = <<>> THEN <<>>
    ELSE QueryUnescape(req.headers.csrf_cookie[1])

\* C14: the CSRF Guard terminates a request with Forbidden if and only if
\* the method is POST, PUT, PATCH or DELETE, the path is none of the three
\* pre-authentication endpoints, and the X-CSRF-Token header is absent, the
\* csrf_token cookie is absent, or the two values differ; a read-only
\* request passes whatever its header and cookie.
C14_CSRFGuard ==
    [][(Current.mw = "CSRFTokens" /\ CSRFTokens)
       => LET refused ==
                 /\ req.route.method \in {"POST", "PUT", "PATCH", "DELETE"}
                 /\ req.route.path \notin {"/api/v1/auth/register", "/api/v1/auth/login",
                                           "/api/v1/auth/api-key"}
                 /\ \/ req.headers.x_csrf_token = <<>>
                    \/ req.headers.csrf_cookie = <<>>
                    \/ req.headers.x_csrf_token # CookieValue
          IN
          /\ refused <=> (req'.stage = "aborted" /\ req'.resp.status = 403)
          /\ ~refused <=> StagePassed("CSRFTokens")]_vars

\* a state-changing request to /api/v1/auth/me whose header and cookie
\* differ was refused
C14_Witness ==
    /\ req.stage = "aborted" /\ req.resp = CSRFFailedResponse
    /\ req.route = CSRFRoute("POST", "/api/v1/auth/me")
    /\ req.headers.x_csrf_token = <<"t">> /\ req.headers.csrf_cookie = <<<<"u">>>>

----------------------------------------------------------------------------
(* The claims about the rate limiters (RateSpec).                          *)

\* the limiter of conn's request decides in this step
LimiterStep(conn) ==
    /\ inflight[conn].stage = "limiter"
    /\ inflight'[conn].stage # "limiter"

\* ... and its store answered / failed
LimiterDecided(conn) == LimiterStep(conn) /\ stores' # stores
LimiterFailed(conn) == LimiterStep(conn) /\ stores' = stores

\* the requests a class has counted under a key in the window still open
CountedInWindow(class, key) ==
    LET counter == stores[class][key] IN
    IF counter.value = 0 \/ counter.expiration <= now THEN 0 ELSE counter.value

\* the key a class counts a request under
KeyOf(f) ==
    IF f.class \in {"register", "login"} THEN f.ip ELSE RateLimitKey(f.headers, f.ip)

\* C15: with limit N per window, of the requests carrying one rate-limit key
\* the limiter of a class admits at most N in one window, however the
\* concurrent requests interleave; a request that finds N already counted
\* is rejected with 429 and a positive retry-after, and a rejected request
\* never reaches the handler.
C15_AtMostNPerWindow ==
    /\ [](\A class \in Classes, key \in RateKeys :
             Cardinality({a \in admitted : a.class = class /\ a.key = key})
                <= RateOf(class).limit)
    /\ [][\A conn \in Conns :
             /\ LimiterDecided(conn)
                => LET f == inflight[conn]
                       n == CountedInWindow(f.class, KeyOf(f))
                   IN IF n >= RateOf(f.class).limit
                      THEN /\ inflight'[conn].stage = "aborted"
                           /\ inflight'[conn].resp.status = 429
                           /\ inflight'[conn].resp.retry_after > 0
                           /\ ~inflight'[conn].handled
                      ELSE inflight'[conn].stage = "next"
             /\ inflight[conn].stage = "aborted" => ~inflight'[conn].handled]_vars

\* two requests under K1 were admitted by the general limiter, one of them
\* still on its way to the handler, and a third was rejected
C15_Witness ==
    /\ inflight["c1"].stage = "aborted" /\ inflight["c1"].resp.status = 429
    /\ inflight["c1"].class = "general" /\ inflight["c1"].key = K1
    /\ inflight["c2"].stage = "next" /\ inflight["c2"].class = "general"
    /\ inflight["c2"].key = K1 /\ inflight["c2"].window = inflight["c1"].window
    /\ Cardinality({a \in admitted : a.class = "general" /\ a.key = K1}) = GeneralLimit

\* C16: a rejection is not permanent: a request under a key whose counter
\* is past the limit is admitted once the counter's window has elapsed.
C16_WindowElapses ==
    [][\A conn \in Conns :
          LET f == inflight[conn]
              counter == stores[f.class][KeyOf(f)]
          IN (/\ LimiterDecided(conn)
              /\ counter.value > RateOf(f.class).limit
              /\ counter.expiration <= now)
             => /\ inflight'[conn].stage = "next"
                /\ stores'[f.class][KeyOf(f)].value = 1
                /\ stores'[f.class][KeyOf(f)].expiration > now]_vars

\* a registration was rejected in one window; the next request from the
\* same address, in the following window, is admitted
C16_Witness ==
    /\ inflight["c1"].stage = "aborted" /\ inflight["c1"].resp.status = 429
    /\ inflight["c1"].class = "register"
    /\ inflight["c2"].stage = "next" /\ inflight["c2"].class = "register"
    /\ inflight["c2"].key = inflight["c1"].key
    /\ inflight["c1"].window <= now /\ inflight["c2"].window > now

\* C17: when the limiter backend fails while a request is checked, the
\* request goes on to the next stage, whatever its class.
C17_FailOpen ==
    [][\A conn \in Conns :
          LimiterFailed(conn)
             => /\ inflight'[conn].stage = "next"
                /\ inflight'[conn].resp.status = 0]_vars

\* a stored key verifies the presented one, has not expired, and its owner
\* exists and is active
Authenticates(plainKey) ==
    \E k \in KeyIDs :
        /\ apiKeys[k] # NoKey
        /\ apiKeys[k].key_prefix = GetKeyPrefix(plainKey)
        /\ VerifyAPIKey(plainKey, apiKeys[k].key_hash)
        /\ apiKeys[k].expires_at = <<>> \/ now <= apiKeys[k].expires_at[1]
        /\ users[apiKeys[k].user_id] # NoUser
        /\ users[apiKeys[k].user_id].is_active

\* C18: a request is counted under the credential it carries only when the
\* credential authenticates the caller; any other request is counted under
\* the caller's address.
C18_KeyedByCredentialWhenAuthenticated ==
    [][\A conn \in Conns :
          LimiterStep(conn)
             => LET f == inflight[conn]
                    credential == ExtractAPIKey(f.headers)
                IN /\ inflight'[conn].key # f.ip
                      => credential # <<>> /\ Authenticates(credential)
                   /\ (credential = <<>> \/ ~Authenticates(credential))
                      => inflight'[conn].key = f.ip]_vars

\* C19: the counters of the classes are independent: a request of one class
\* changes no counter of another class, and whether it is admitted depends
\* on the counter of its own class alone.
C19_ClassesIndependent ==
    [][\A conn \in Conns :
          LimiterStep(conn)
             => LET f == inflight[conn] IN
                /\ \A class \in Classes \ {f.class} : stores'[class] = stores[class]
                /\ {a \in admitted' : a.class # f.class} = {a \in admitted : a.class # f.class}
                /\ LimiterDecided(conn)
                     => /\ stores'[f.class][KeyOf(f)].value
                              = CountedInWindow(f.class, KeyOf(f)) + 1
                        /\ inflight'[conn].stage = "aborted"
                              <=> CountedInWindow(f.class, KeyOf(f)) >= RateOf(f.class).limit]_vars

\* the register limiter has rejected a request from an address whose login
\* request, counted in the same window, is admitted
C19_Witness ==
    /\ inflight["c1"].stage = "aborted" /\ inflight["c1"].resp.status = 429
    /\ inflight["c1"].class = "register"
    /\ inflight["c2"].stage = "next" /\ inflight["c2"].class = "login"
    /\ inflight["c2"].key = inflight["c1"].key
    /\ inflight["c2"].window = inflight["c1"].window
    /\ stores["register"][inflight["c1"].key].value > RegisterLimit
    /\ stores["login"][inflight["c1"].key].value = 1

----------------------------------------------------------------------------
(* The claim about the key-issuing handlers (KeySpec).                     *)

\* a key-issuing handler answers in this step
KeyHandlerStep == last' # last /\ last'.op \in KeyIssuingOps

\* the api_keys row holding the hash and the prefix of a plaintext key
StoredRowOf(plainKey, rows) ==
    {k \in KeyIDs : /\ rows[k].key_hash = Bcrypt(Base64Decode(plainKey).bytes)
                    /\ rows[k].key_prefix = GetKeyPrefix(plainKey)
                    /\ rows[k] # NoKey}

\* C20: Login, CreateAPIKey and GetAPIKeyFromCredentials put the plaintext
\* key in a response only when its hash and prefix were stored by the same
\* call; when nothing was stored, storing having failed included, the
\* response carries no key.
C20_PersistThenRespond ==
    [][KeyHandlerStep
       => /\ last'.key # <<>>
             => /\ StoredRowOf(last'.key, apiKeys') # {}
                /\ StoredRowOf(last'.key, apiKeys) = {}
                /\ \A k \in StoredRowOf(last'.key, apiKeys') :
                       apiKeys'[k].user_id = last'.user_id
                /\ last'.status \in {200, 201}
          /\ apiKeys' = apiKeys => last'.key = <<>> /\ last'.status \notin {200, 201}]_vars

\* a login answered with K1 and the row of K1 is stored, after an earlier
\* call had generated K2 and failed to store it
C20_Witness ==
    /\ last.op = "Login" /\ last.status = 200 /\ last.key = K1
    /\ StoredRowOf(K1, apiKeys) # {}
    /\ K2 \in issued /\ StoredRowOf(K2, apiKeys) = {}

\* the stored keys of a user that still authenticate
ValidKeysOf(userID, rows) ==
    {k \in KeyIDs : /\ rows[k] # NoKey /\ rows[k].user_id = userID
                    /\ rows[k].expires_at = <<>> \/ now <= rows[k].expires_at[1]}

\* C21: when the response to a key-issuing request was lost and the caller
\* sends the request again, storage does not end up holding another valid
\* key of the caller whose plaintext the caller never received.
C21_RetryLeavesNoUnreceivedKey ==
    [][(KeyHandlerStep /\ last'.key # <<>> /\ last'.user_id \in callers.retrying)
       => \A k \in ValidKeysOf(last'.user_id, apiKeys') :
             \/ k \in StoredRowOf(last'.key, apiKeys')
             \/ \E plainKey \in callers.received : k \in StoredRowOf(plainKey, apiKeys')]_vars

\* C22: the api_keys rows hold the bcrypt hash and the prefix of at most 8
\* characters of a key and no other key material; a response carries a
\* plaintext key only if the call it answers generated that key, and the
\* entries of a key listing carry neither plaintext, hash nor prefix.
C22_PlaintextOnlyInCreatingResponse ==
    /\ [](\A k \in KeyIDs :
            /\ DOMAIN apiKeys[k]
                  = {"user_id", "key_hash", "key_prefix", "expires_at", "last_used_at"}
            /\ apiKeys[k].key_hash.alg = "bcrypt"
            /\ Len(apiKeys[k].key_prefix) <= KeyPrefixLen
            /\ \A plainKey \in issued : apiKeys[k].key_prefix # plainKey)
    /\ [](last.op \in {"ListAPIKeys", "DeleteAPIKey"}
            => /\ last.key = <<>>
               /\ \A e \in last.list :
                     DOMAIN e = {"id", "user_id", "last_used_at", "expires_at"})
    /\ [][(last' # last /\ last'.op # "-" /\ last'.key # <<>>)
            => /\ last'.op \in KeyIssuingOps
               /\ last'.key \notin issued
               /\ last'.key \in issued']_vars

\* u1 lists their keys after a key was issued to them and its response
\* has arrived
C22_Witness ==
    /\ last.op = "ListAPIKeys" /\ last.status = 200 /\ last.user_id = "u1"
    /\ last.list # {}
    /\ callers.received # {}

----------------------------------------------------------------------------
(* Deleted keys (AuthSpec).                                                *)

\* the presented key was issued and its row has been deleted since
PresentedKeyDeleted ==
    /\ PresentedKey \in issued
    /\ apiKeys[KeyIDFor(PresentedKey)] = NoKey

\* C23: once an API key has been deleted, a request that presents its
\* plaintext is rejected with 401 and reaches no handler, whatever other
\* keys are stored (the key lookup itself answering).
C23_DeletedKeyUnauthorized ==
    [][(PresentedKeyDeleted /\ (AuthStep(FALSE, FALSE) \/ AuthStep(FALSE, TRUE)))
       => /\ req'.stage = "aborted"
          /\ req'.resp.status = 401
          /\ ~req'.handled]_vars

\* K1 was deleted while K2, which shares its prefix, is still stored, and a
\* request presenting K1 was rejected
C23_Witness ==
    /\ req.stage = "aborted" /\ req.resp.status = 401
    /\ PresentedKey = K1 /\ PresentedKeyDeleted
    /\ apiKeys[KeyIDFor(K2)] # NoKey

----------------------------------------------------------------------------
(* Registration and user management (UserSpec).                            *)

\* C24: a user's org_id never changes after the user is created: every step
\* of registration, user creation, role update and deletion leaves the
\* org_id of every user row that is stored before and after it as it was,
\* and an id whose row was deleted is never given to another row.
C24_OrgIDNeverChanges ==
    [][/\ DOMAIN users \subseteq DOMAIN users'
       /\ \A u \in DOMAIN users :
            /\ (users[u] # NoUser /\ users'[u] # NoUser) => users'[u].org_id = users[u].org_id
            /\ users[u] = NoUser => users'[u] = NoUser]_vars

\* a role update was carried out on u3, which is still in its organization,
\* while a user created later and a deleted one are in the table too
C24_Witness ==
    /\ last.op = "UpdateUserRole" /\ last.status = 200 /\ last.id = "u3"
    /\ users["u3"].role = "admin" /\ users["u3"].org_id = InitialUsers["u3"].org_id
    /\ \E u \in DOMAIN users \ UserIDs : users[u] # NoUser
    /\ \E u \in DOMAIN users : users[u] = NoUser

\* the caller, a stored admin, names a stored user of another organization
CrossTenant(caller, userID) ==
    /\ caller \in UserCallers /\ userID \in StoredUsers
    /\ users[userID].org_id # users[caller].org_id

\* C25: every cross-tenant access attempt is answered NotFound, with the
\* answer given for an id that names nothing, and never Forbidden: when an
\* admin names, for a role update or a deletion, a user of another
\* organization and the storage answers, the response is the 404 "user not
\* found" of that handler.
C25_CrossTenantIsNotFound ==
    [][\A caller \in DOMAIN users, userID \in DOMAIN users :
         (/\ CrossTenant(caller, userID)
          /\ \/ \E role \in Roles :
                  UpdateUserRoleHandler(caller, userID, FALSE, role, FALSE, FALSE, FALSE)
             \/ DeleteUserHandler(caller, userID, FALSE, FALSE))
         => /\ last'.status = 404
            /\ last' = UserNotFound(last'.op)]_vars

\* C26: a request by which a user would change their own role or delete
\* their own account is answered 403 Forbidden, whatever its body and
\* whatever the storage would have answered, and the user's row, username
\* and email are after the request what they were before it.
C26_SelfTargetForbidden ==
    [][\A caller \in UserCallers :
         (\/ /\ last'.op = "UpdateUserRole"
             /\ \E badJSON \in BOOLEAN, role \in Roles, fails \in StorageFailures(3) :
                  UpdateUserRoleHandler(caller, caller, badJSON, role,
                                        fails[1], fails[2], fails[3])
          \/ /\ last'.op = "DeleteUser"
             /\ \E fails \in StorageFailures(2) :
                  DeleteUserHandler(caller, caller, fails[1], fails[2]))
         => /\ last'.status = 403
            /\ last'.error \in {"cannot update own role", "cannot delete yourself"}
            /\ users'[caller] = users[caller]
            /\ accounts'[caller] = accounts[caller]]_vars

\* u3, made admin by u1, asked to delete their own account and was refused
C26_Witness ==
    /\ last.op = "DeleteUser" /\ last.status = 403 /\ last.error = "cannot delete yourself"
    /\ users["u3"].role = "admin" /\ users["u1"] = NoUser

\* what a step adds to the two tables
NewOrgs  == DOMAIN orgs' \ DOMAIN orgs
NewUsers == DOMAIN users' \ DOMAIN users

----------------------------------------------------------------------------
(* Roles per route, and the record of a key's last use (TouchSpec).        *)

\* the request in progress is by an authenticated user whose role is not
\* one of those its route lists
OutsideRole ==
    /\ req.stage \in {"running", "aborted"}
    /\ req.ctx.user # NoUser
    /\ RolesOf(req.route) # {}
    /\ req.ctx.user.role \notin RolesOf(req.route)

\* the goroutine started for the key of the request in progress runs
OwnUpdateStep(apiKeyID) ==
    /\ apiKeyID = req.ctx.api_key_id
    /\ UpdateAPIKeyLastUsed(apiKeyID, TRUE) \/ UpdateAPIKeyLastUsed(apiKeyID, FALSE)

\* what C28 says of one step, the goroutine apart
RoleGateStep ==
    /\ (req'.handled /\ ~req.handled /\ req.route \in AuthenticatedRoutes)
          => /\ req.ctx.user # NoUser
             /\ req.route \in EditorOrAdminRoutes \cup IngestRoutes
                   => req.ctx.user.role \in {"editor", "admin"}
             /\ req.route \in AdminOnlyRoutes => req.ctx.user.role = "admin"
    /\ (/\ req.route \in {Route("GET", "/api/v1/hosts"), Route("GET", "/api/v1/hosts/:host_id")}
        /\ req.stage = "running" /\ req.ctx.user # NoUser /\ req' # req)
          => req'.stage \in {"running", "served"}
    /\ (OutsideRole /\ Current.mw = "RequireRole" /\ RequireRole)
          => /\ req'.stage = "aborted" /\ req'.resp.status = 403
             /\ ~req'.handled
    /\ (OutsideRole /\ req.stage = "aborted") => (req' = req \/ req' = NoReq)
    /\ (OutsideRole /\ req' # req) => UNCHANGED <<hosts, users, apiKeys, orgs, accounts>>

\* C28 as written: ingesting and deleting a host are carried out only for
\* editors and admins, user management only for admins, listing and
\* reading hosts for every authenticated role; a request by a role outside
\* the route's set is rejected with 403 and changes no stored state, the
\* goroutine it started included.
C28_RejectedChangesNothing ==
    [][/\ RoleGateStep
       /\ \A apiKeyID \in KeyIDs :
            (OutsideRole /\ OwnUpdateStep(apiKeyID))
               => UNCHANGED <<hosts, users, apiKeys, orgs, accounts>>]_vars

\* C28, amended: the same role requirements and the same rejection, and
\* the rejected request changes no stored state other than last_used_at of
\* the key it presented, which the goroutine started by AuthMiddleware sets.
C28_RoleGate ==
    [][/\ RoleGateStep
       /\ \A apiKeyID \in KeyIDs :
            (OutsideRole /\ OwnUpdateStep(apiKeyID))
               => /\ UNCHANGED <<hosts, users, orgs, accounts>>
                  /\ \A k \in KeyIDs :
                        \/ apiKeys'[k] = apiKeys[k]
                        \/ /\ k = apiKeyID
                           /\ apiKeys'[k] = [apiKeys[k] EXCEPT !.last_used_at = <<now>>]]_vars

\* a viewer was refused the deletion of a host, and the key presented
\* carries the time of that request
C28_Witness ==
    /\ req.stage = "aborted" /\ req.resp.status = 403
    /\ req.route = Route("DELETE", "/api/v1/hosts/:host_id")
    /\ req.ctx.user.role = "viewer"
    /\ now = MaxTime /\ touchQ = {}
    /\ apiKeys[req.ctx.api_key_id].last_used_at = <<now>>

\* the next step of the request in progress
ForegroundStep ==
    \/ \E cands \in RowOrders(PrefixMatches) : AuthMiddleware(cands, FALSE, FALSE)
    \/ OrgContextMiddleware
    \/ RequireRole
    \/ ServeHandler
    \/ Finish

\* C29: the asynchronous update of last_used_at never changes the outcome
\* of the foreground request, and the foreground never waits for it: the
\* goroutine's step, whether its UPDATE succeeds or fails, leaves the
\* request as it is; the request's next step can be taken whatever
\* goroutines are still waiting; and what AuthMiddleware decides and puts
\* into the context depends on the key, its expiry and its owner, not on
\* last_used_at or on the goroutines that ran, failed or are waiting.
C29_UpdateOffCriticalPath ==
    /\ [](req.stage # "none" => ENABLED ForegroundStep)
    /\ [][/\ \A apiKeyID \in KeyIDs, fail \in BOOLEAN :
               UpdateAPIKeyLastUsed(apiKeyID, fail) => req' = req
          /\ AuthStep(FALSE, FALSE) =>
               /\ AuthPassed <=> CredentialValid
               /\ AuthPassed =>
                    \E k \in Verifying :
                        req'.ctx = SetAuthContext(req.ctx, apiKeys[k].user_id, k,
                                                  users[apiKeys[k].user_id])]_vars

\* the response of a request was written while the goroutine it started
\* had not run yet; an earlier one has recorded the use of a key
C29_Witness ==
    /\ req = NoReq /\ touchQ # {}
    /\ \E k \in KeyIDs \ touchQ : apiKeys[k].last_used_at # <<>>

----------------------------------------------------------------------------
(* Key verification (VerifySpec).                                          *)

\* C30: for every plaintext/hash pair that key generation produces,
\* verification of the plaintext against the hash succeeds, and every
\* plaintext that differs from it in a single character fails verification
\* against that hash.
C30_OnlyTheGeneratedKeyVerifies ==
    last.op = "VerifyAPIKey" => (last.verified <=> last.presented = last.plainKey)

----------------------------------------------------------------------------
(* Concurrent saves of one host (Spec).                                    *)

\* C31: under any interleaving of concurrent saves of one host_id by
\* callers of different organizations, a stored host keeps its org_id for
\* as long as it is stored: no step gives a host that exists to another
\* organization.
C31_HostOwnerStable ==
    [][\A h \in HostIDs :
         (Stored(h) /\ hosts'[h] # NoHost) => hosts'[h].org_id = hosts[h].org_id]_vars

----------------------------------------------------------------------------
(* Registration that fails half way (UserSpec).                            *)

\* C34: registration is all-or-nothing: a registration request that is not
\* answered 201 leaves no organization and no user that it created, so
\* the organizations and users stored after it are those stored before.
C34_RegistrationAllOrNothing ==
    [][(last'.op = "Register" /\ last'.status # 201)
          => /\ DOMAIN orgs' = DOMAIN orgs
             /\ UNCHANGED <<orgs, users, accounts>>]_vars

(* Admins that demote or delete each other (RaceSpec). *)
HasUsers(o) == \E u \in StoredUsers : users[u].org_id = o
HasAdmin(o) == \E u \in StoredUsers : users[u].org_id = o /\ users[u].role = "admin"

\* C32: no role update and no deletion takes the last admin from an
\* organization that still has users afterwards, the requests of two admins
\* that are served at the same time included.
C32_OrgKeepsAnAdmin ==
    [][\A o \in DOMAIN orgs :
         (HasAdmin(o) /\ HasUsers(o)') => HasAdmin(o)']_vars

(* Two requests that create the same username or email (InsertSpec). *)
\* C33: of two requests in flight with one username or one email, at most
\* one creates a user, and the one that loses at its INSERT is answered 409
\* Conflict.
C33_DuplicateLosesWithConflict ==
    /\ [](\A u, v \in StoredUsers :
            (u # v) => /\ accounts[u].username # accounts[v].username
                       /\ accounts[u].email # accounts[v].email)
    /\ [][\A w \in Workers :
            (/\ pc[w] = "insert"
             /\ pc'[w] = "idle"
             /\ UniqueViolation(pend[w].username, pend[w].email)) => last'.status = 409]_vars

(* What a failed login tells about the username (KeySpec). *)
\* C35: Login and GetAPIKeyFromCredentials answer a wrong password for a
\* stored username, active or not, exactly as they answer a username that
\* is not stored: 401 "invalid credentials".
C35_FailedLoginsAlike ==
    [][\A u \in StoredUsers, plainKey \in KeySpace :
         (last'.status = 401
            /\ (\/ Login(FALSE, accounts[u].username, <<"wrong">>, plainKey, FALSE, FALSE)
                \/ GetAPIKeyFromCredentials(FALSE, accounts[u].username, <<"wrong">>,
                                            plainKey, FALSE, FALSE)))
            => last'.error = "invalid credentials"]_vars

(* Keys of deleted users (RevokeSpec). *)
\* C36: no request passes AuthMiddleware with the key of a user whose row
\* is deleted, whether the rows of the user's keys went with it (the
\* database's ON DELETE CASCADE) or stayed (MockStorage).
C36_DeletedUsersKeysAreDead ==
    [][(req.ctx.user_id = "-" /\ req'.ctx.user_id # "-")
          => UserRow(req'.ctx.user_id) # NoUser]_vars

\* the key of a deleted user, its row still stored, was presented and refused
C36_Witness ==
    /\ req.stage = "aborted" /\ req.resp = InactiveResponse
    /\ \E k \in KeyIDs :
          /\ apiKeys[k] # NoKey
          /\ VerifyAPIKey(ExtractAPIKey(req.headers), apiKeys[k].key_hash)
          /\ users[apiKeys[k].user_id] = NoUser

(* Role changes and deactivations reach the next request (RevokeSpec). *)
\* the step of AuthMiddleware that lets the request pass
AuthPassStep == req.ctx.user_id = "-" /\ req'.ctx.user_id # "-"

\* C37: a request that passes AuthMiddleware does so on the user row as it
\* is stored at that moment, which is active; the row stays the request's
\* user to its end, and RequireRole lets the request reach its handler only
\* if the role of that row is one the route allows: a committed role change
\* or deactivation decides every request authenticated after it.
C37_ChangesDecideLaterRequests ==
    [][/\ AuthPassStep => /\ req'.ctx.user = UserRow(req'.ctx.user_id)
                          /\ req'.ctx.user.is_active
                          /\ apiKeys[req'.ctx.api_key_id].user_id = req'.ctx.user_id
       /\ (req.ctx.user_id # "-" /\ req' # NoReq) => req'.ctx.user = req.ctx.user
       /\ (~req.handled /\ req'.handled /\ RolesOf(req.route) # {})
             => req.ctx.user.role \in RolesOf(req.route)]_vars

\* u1, the admin of the start, was made a viewer and is refused as one
C37_Witness ==
    /\ req.stage = "aborted" /\ req.resp.status = 403
    /\ req.ctx.user_id = "u1"
    /\ req.ctx.user.role = "viewer"
    /\ users["u1"].role = "viewer"

(* The user handlers stay inside the caller's organization (UserSpec). *)
\* a user-management request of the caller that the step answers
RequestOf(caller) ==
    \/ /\ last'.op = "ListUsers"
       /\ \E fail \in BOOLEAN : ListUsers(caller, fail)
    \/ /\ last'.op = "CreateUser"
       /\ \E x \in CreateUserCalls, names \in NamePairs :
             x[1] = caller /\ CreateUserHandler(caller, x[2], names[1], names[2], x[3], x[4])
    \/ /\ last'.op = "UpdateUserRole"
       /\ \E userID \in UserTargets, badJSON \in BOOLEAN, role \in Roles,
             fails \in StorageFailures(3) :
             UpdateUserRoleHandler(caller, userID, badJSON, role, fails[1], fails[2], fails[3])
    \/ /\ last'.op = "DeleteUser"
       /\ \E userID \in UserTargets, fails \in StorageFailures(2) :
             DeleteUserHandler(caller, userID, fails[1], fails[2])

\* what the step leaves of the organizations the caller is not in: the list
\* answered holds users of the caller's organization only, a user created is
\* in that organization, and the rows, the names and the keys of every other
\* organization's users are as they were
StaysInOwnOrg(caller) ==
    /\ \A u \in last'.list : users[u].org_id = users[caller].org_id
    /\ \A u \in DOMAIN users' \ DOMAIN users : users'[u].org_id = users[caller].org_id
    /\ \A u \in StoredUsers :
          users[u].org_id # users[caller].org_id
             => /\ users'[u] = users[u]
                /\ accounts'[u] = accounts[u]
                /\ \A k \in KeyIDs : apiKeys[k].user_id = u => apiKeys'[k] = apiKeys[k]

\* C38: no user-management request of a member of one organization lists,
\* creates, changes the role of, or deletes a user of another: a step that
\* does any of these is not a list, create, role-update or delete request
\* of that member.
C38_HandlersStayInOwnOrg ==
    [][\A caller \in UserCallers : ~StaysInOwnOrg(caller) => ~RequestOf(caller)]_vars

\* an admin asked to delete a user of another organization and was refused,
\* while a third organization has a user of its own
C38_Witness ==
    /\ last = NotInYourOrganization("DeleteUser")
    /\ \E u \in StoredUsers : users[u].org_id \notin OrgIDs
    /\ \A u \in UserIDs : users[u] # NoUser

(* One terminal response per request (PipelineSpec). *)
\* C39: a request ends with one terminal response: the rejection of the
\* stage that refused it, or what its handler wrote.  A stage that refuses
\* writes its response and aborts in the same step; after that step no
\* stage and no handler of the request runs, and its response is not
\* written again.  This holds for the limiters, AuthMiddleware,
\* OrgContextMiddleware, CSRFTokens and RequireRole alike.
C39_OneTerminalResponse ==
    /\ [](/\ req.stage = "aborted" => (req.resp # NoResp /\ ~req.handled)
          /\ req.stage = "served" => (req.resp = NoResp /\ req.handled)
          /\ req.stage \in {"none", "running"} => (req.resp = NoResp /\ ~req.handled)
          /\ \A conn \in Conns :
                /\ inflight[conn].stage = "aborted"
                      => (inflight[conn].resp.status # 0 /\ ~inflight[conn].handled)
                /\ inflight[conn].stage = "served"
                      => (inflight[conn].resp.status = 0 /\ inflight[conn].handled)
                /\ inflight[conn].stage \in {"none", "limiter", "next"}
                      => (inflight[conn].resp.status = 0 /\ ~inflight[conn].handled))
    /\ [][/\ req.stage \in {"aborted", "served"} => (req' = req \/ req' = NoReq)
          /\ req'.stage = "aborted" => (req'.ran = req.ran /\ req'.ctx = req.ctx)
          /\ \A conn \in Conns :
                inflight[conn].stage \in {"aborted", "served"}
                   => (inflight'[conn] = inflight[conn] \/ inflight'[conn] = NoFlight)]_vars

\* RequireRole refused a request after two stages let it pass, while a
\* limiter refused another
C39_Witness ==
    /\ req.stage = "aborted" /\ req.resp.status = 403
    /\ req.ran = <<"AuthMiddleware", "OrgContextMiddleware">>
    /\ \E conn \in Conns :
          inflight[conn].stage = "aborted" /\ inflight[conn].resp.status = 429

(* What the last-used update writes (TouchSpec). *)
\* C40: the step in which the goroutine started for a key runs changes at
\* most the last_used_at of that key's row.  If the row was deleted in the
\* meantime the step changes no row and does not bring the key back.  No
\* other key, no user and no host is altered.
C40_UpdateTouchesOneField ==
    [][\A apiKeyID \in touchQ \ touchQ' :
         /\ \A k \in KeyIDs \ {apiKeyID} : apiKeys'[k] = apiKeys[k]
         /\ apiKeys[apiKeyID] = NoKey => apiKeys'[apiKeyID] = NoKey
         /\ apiKeys[apiKeyID] # NoKey =>
               /\ apiKeys'[apiKeyID] # NoKey
               /\ [apiKeys'[apiKeyID] EXCEPT !.last_used_at = <<>>]
                     = [apiKeys[apiKeyID] EXCEPT !.last_used_at = <<>>]
         /\ UNCHANGED <<users, hosts, issued, orgs, accounts>>]_vars

\* the key of the request in progress was deleted after it authenticated
\* and its goroutine has run; the other key carries the time of its last use
C40_Witness ==
    /\ req.stage = "running" /\ req.ctx.api_key_id = "k1"
    /\ apiKeys["k1"] = NoKey /\ touchQ = {}
    /\ apiKeys["k2"] # NoKey /\ apiKeys["k2"].last_used_at = <<MaxTime>>

====
